---- MODULE Spec2Model ----
(***************************************************************************)
(* padak/binance_trading: the trading state machine                        *)
(* (src/src/core/state_manager.py, class StateManager), the decision cycle *)
(* of the TradingEngine (src/src/core/trading_engine.py), and the order    *)
(* book and candle aggregation of the MarketDataService                    *)
(* (src/src/services/market_data.py).                                      *)
(*                                                                         *)
(* Units.  Decimal values are scaled integers:                             *)
(*   price          whole USDC                                             *)
(*   quantity       1/10000 of a coin (0.2567 is 2567)                     *)
(*   amount/balance 1/10000 USDC (price * quantity)                        *)
(*   profit_loss    1/10000000 USDC (amount * 1000)                        *)
(* An optional value (Python None or an object) is a sequence of length    *)
(* 0 or 1.  Order ids are the positive integers the exchange hands out;    *)
(* 0 stands for a falsy id (None, 0, '') and "" for a falsy status.        *)
(***************************************************************************)
EXTENDS Integers, Sequences, FiniteSets, TLC

VARIABLES
    current_state,      \* StateManager.current_state
    current_position,   \* StateManager.current_position (optional Position)
    active_order,       \* StateManager.active_order (optional Order)
    trades,             \* StateManager.trades, the ledger (sequence of Trade)
    exchange,           \* orders accepted by the exchange client, by order id
    position_order,     \* id of the order whose fill created current_position
    last,               \* the last call made on the StateManager, with the
                        \* state it was made in and its outcome
    fn,                 \* the last evaluation of a function called on its
                        \* own: its name, arguments and result
    cycle,              \* the outcome of the last TradingEngine decision cycle
    calls,              \* the place_buy_order coroutines: where each one is
                        \* suspended, and its local variables
    order_book,         \* MarketDataService.order_book (bids, asks,
                        \* cancel_counts)
    candles,            \* MarketDataService.candles, the sealed history
    current_candle,     \* MarketDataService.current_candle (optional Candle)
    last_price,         \* MarketDataService.last_price (optional price)
    candle_task,        \* the _candle_manager task: where it sleeps, until
                        \* when, and the first boundary it opened a candle at
    now,                \* the 5-minute interval the wall clock is in
    volume_24h,         \* MarketDataService.volume_24h (empty while the
                        \* attribute is not set)
    client,             \* MarketDataService.client (optional AsyncClient)
    socket_tasks,       \* MarketDataService.socket_tasks, the task list
    sockets,            \* each _handle_socket task: not created, connected,
                        \* disconnected (its loop broke) or cancelled
    stop_call,          \* the stop() coroutine since start(): where it
                        \* is, and the calls of stop() so far
    snapshot_call,      \* the get_market_snapshot coroutine: where it is
                        \* suspended, its arguments and local variables
    monitor,            \* binance_monitor.main: where it is, and its local
                        \* variables twm, reconnect_count and wait_time
    reports,            \* the terminal order reports the exchange has sent
                        \* for the orders it accepted: (orderId, status)
    rsi_values,         \* MarketDataService.rsi_values, a deque
    macd_values,        \* MarketDataService.macd_values, a deque
    engine              \* TradingEngine: its field active, and where its
                        \* start() coroutine is

state_vars == <<current_state, current_position, active_order, trades,
                exchange, position_order, last>>

market_vars == <<order_book, candles, current_candle, last_price,
                 candle_task, now>>

service_vars == <<volume_24h, client, socket_tasks, sockets, stop_call,
                  snapshot_call>>

indicator_vars == <<rsi_values, macd_values>>

vars == <<state_vars, fn, cycle, calls, market_vars, service_vars, monitor, reports,
          indicator_vars, engine>>

(***************************************************************************)
(* Bounds and input domains                                                *)
(***************************************************************************)
MaxOrders == 4          \* orders the exchange accepts in one run
SubUnits == 4           \* float sub-units per amount unit
FloatErr == 1           \* rounding error of the float product, in sub-units

BuyPrices == {40, 41}
SellPrices == {42}
BuyQuantities == {2500}
SellQuantities == {2500, 2567}
Balances == {0, 100000, 200000}
OrderIds == 0..MaxOrders
FillPrices == {40}
UpdatePrices == {<<>>} \cup {<<p>> : p \in FillPrices}

None == <<>>
Some(x) == <<x>>

READY_TO_BUY == "READY_TO_BUY"
BUYING == "BUYING"
READY_TO_SELL == "READY_TO_SELL"
SELLING == "SELLING"
TradingState == {READY_TO_BUY, BUYING, READY_TO_SELL, SELLING}

FailedStatuses == {"CANCELED", "REJECTED", "EXPIRED"}
Statuses == {"", "NEW", "PARTIALLY_FILLED", "FILLED"} \cup FailedStatuses

(***************************************************************************)
(* Data classes                                                            *)
(***************************************************************************)
Position(quantity, entry_price) ==
    [quantity |-> quantity, entry_price |-> entry_price]

Order(id, side, quantity, price, status) ==
    [id |-> id, side |-> side, quantity |-> quantity, price |-> price,
     status |-> status]

Trade(buy_order, sell_order, profit_loss, status) ==
    [buy_order |-> buy_order, sell_order |-> sell_order,
     profit_loss |-> profit_loss, status |-> status]

\* The four fields of the StateManager the operations read and write.
SM == [current_state |-> current_state, current_position |-> current_position,
       active_order |-> active_order, trades |-> trades]

(***************************************************************************)
(* transition / _is_valid_transition                                       *)
(***************************************************************************)
\* A faulty variant: READY_TO_SELL may also go straight back to READY_TO_BUY.
valid_transitions_sell_exit(state) ==
    CASE state = READY_TO_BUY -> {BUYING}
      [] state = BUYING -> {READY_TO_SELL, READY_TO_BUY}
      [] state = READY_TO_SELL -> {SELLING, READY_TO_BUY}
      [] state = SELLING -> {READY_TO_BUY, READY_TO_SELL}
      [] OTHER -> {}

valid_transitions(state) ==
    CASE state = READY_TO_BUY -> {BUYING}
      [] state = BUYING -> {READY_TO_SELL, READY_TO_BUY}
      [] state = READY_TO_SELL -> {SELLING}
      [] state = SELLING -> {READY_TO_BUY, READY_TO_SELL}
      [] OTHER -> {}

is_valid_transition(state, new_state) == new_state \in valid_transitions(state)

\* transition(new_state, order): the state manager afterwards and the
\* boolean the call returns.
transition(sm, new_state, order) ==
    IF ~is_valid_transition(sm.current_state, new_state)
    THEN [sm |-> sm, ok |-> FALSE]
    ELSE [sm |-> [sm EXCEPT !.current_state = new_state,
                            !.active_order = IF order # None THEN order ELSE @],
          ok |-> TRUE]

(***************************************************************************)
(* record_trade / _calculate_profit_loss                                   *)
(***************************************************************************)
\* A faulty variant: the trade is recorded without being appended.
record_trade_dropped(ledger, buy_order) == ledger

record_trade(ledger, buy_order) ==
    Append(ledger, Trade(Some(buy_order), None, None, "OPEN"))

\* sell_value - buy_value - buy_fee - sell_fee with fee_rate 0.001, in
\* thousandths of an amount unit.
calculate_profit_loss_one_fee(trade) ==
    IF trade.buy_order = None \/ trade.sell_order = None
    THEN 0
    ELSE LET buy_value == trade.buy_order[1].quantity * trade.buy_order[1].price
             sell_value == trade.sell_order[1].quantity * trade.sell_order[1].price
         IN  (sell_value - buy_value) * 1000 - sell_value

calculate_profit_loss(trade) ==
    IF trade.buy_order = None \/ trade.sell_order = None
    THEN 0
    ELSE LET buy_value == trade.buy_order[1].quantity * trade.buy_order[1].price
             sell_value == trade.sell_order[1].quantity * trade.sell_order[1].price
         IN  (sell_value - buy_value) * 1000 - buy_value - sell_value

(***************************************************************************)
(* handle_order_update                                                     *)
(***************************************************************************)
\* Decimal(order_update.get('price', '0'))
update_price(update) == IF update.price = None THEN 0 ELSE update.price[1]

\* A faulty variant: the entry price is taken from the order, not the update.
on_buy_filled_order_price(sm, update) ==
    transition([sm EXCEPT !.current_position =
                    Some(Position(sm.active_order[1].quantity,
                                  sm.active_order[1].price))],
               READY_TO_SELL, None).sm

\* FILLED while BUYING: lines 117-124.
on_buy_filled(sm, update) ==
    transition([sm EXCEPT !.current_position =
                    Some(Position(sm.active_order[1].quantity, update_price(update)))],
               READY_TO_SELL, None).sm

\* A faulty variant: the trade is closed without its profit_loss.
close_last_trade_no_profit(ledger, order) ==
    IF Len(ledger) > 0 /\ ledger[Len(ledger)].status = "OPEN"
    THEN [ledger EXCEPT ![Len(ledger)] =
             [ledger[Len(ledger)] EXCEPT !.sell_order = order,
                                         !.status = "CLOSED"]]
    ELSE ledger

\* The last trade, closed with the active order as its sell leg: lines 128-132.
close_last_trade(ledger, order) ==
    IF Len(ledger) > 0 /\ ledger[Len(ledger)].status = "OPEN"
    THEN LET closing == [ledger[Len(ledger)] EXCEPT !.sell_order = order,
                                                    !.status = "CLOSED"]
         IN  [ledger EXCEPT ![Len(ledger)] =
                 [closing EXCEPT !.profit_loss = Some(calculate_profit_loss(closing))]]
    ELSE ledger

\* A faulty variant: the position is not cleared.
on_sell_filled_keep_position(sm) ==
    transition([sm EXCEPT !.trades = close_last_trade(sm.trades, sm.active_order)],
               READY_TO_BUY, None).sm

\* FILLED while SELLING: lines 127-136.
on_sell_filled(sm) ==
    transition([sm EXCEPT !.trades = close_last_trade(sm.trades, sm.active_order),
                          !.current_position = None],
               READY_TO_BUY, None).sm

\* A faulty variant: else instead of elif, so every state but BUYING takes
\* the sell branch.
filled_branch_else(state) == IF state = BUYING THEN "buy" ELSE "sell"

\* The branch a FILLED update for the active order takes: lines 115, 126.
filled_branch(state) ==
    IF state = BUYING THEN "buy"
    ELSE IF state = SELLING THEN "sell"
    ELSE "none"

\* A faulty variant: a failed SELL order falls back to READY_TO_BUY.
on_order_failed_to_buy(sm) ==
    IF sm.current_state = BUYING THEN transition(sm, READY_TO_BUY, None).sm
    ELSE IF sm.current_state = SELLING THEN transition(sm, READY_TO_BUY, None).sm
    ELSE sm

\* CANCELED / REJECTED / EXPIRED for the active order: lines 138-143.
on_order_failed(sm) ==
    IF sm.current_state = BUYING THEN transition(sm, READY_TO_BUY, None).sm
    ELSE IF sm.current_state = SELLING THEN transition(sm, READY_TO_SELL, None).sm
    ELSE sm

\* One iteration of the loop over the ledger: lines 147-156.
ledger_step(sm, i, update) ==
    LET trade == sm.trades[i] IN
    IF /\ trade.status = "OPEN"
       /\ trade.sell_order # None
       /\ trade.sell_order[1].id = update.orderId
       /\ update.status = "FILLED"
    THEN transition(
            [sm EXCEPT !.trades[i] =
                          [trade EXCEPT !.status = "CLOSED",
                                        !.profit_loss =
                                            Some(calculate_profit_loss(
                                                [trade EXCEPT !.status = "CLOSED"]))],
                       !.current_position = None],
            READY_TO_BUY, None).sm
    ELSE sm

RECURSIVE ledger_scan(_, _, _)
ledger_scan(sm, i, update) ==
    IF i > Len(sm.trades) THEN sm
    ELSE ledger_scan(ledger_step(sm, i, update), i + 1, update)

\* A faulty variant: the update is not compared with the active order's id.
handle_order_update_unchecked(sm, update) ==
    IF update.orderId = 0 \/ update.status = ""
    THEN sm
    ELSE IF sm.active_order # None
    THEN IF update.status = "FILLED"
         THEN CASE filled_branch(sm.current_state) = "buy" -> on_buy_filled(sm, update)
                [] filled_branch(sm.current_state) = "sell" -> on_sell_filled(sm)
                [] OTHER -> sm
         ELSE IF update.status \in FailedStatuses
         THEN on_order_failed(sm)
         ELSE sm
    ELSE ledger_scan(sm, 1, update)

handle_order_update(sm, update) ==
    IF update.orderId = 0 \/ update.status = ""
    THEN sm
    ELSE IF sm.active_order # None /\ sm.active_order[1].id = update.orderId
    THEN IF update.status = "FILLED"
         THEN CASE filled_branch(sm.current_state) = "buy" -> on_buy_filled(sm, update)
                [] filled_branch(sm.current_state) = "sell" -> on_sell_filled(sm)
                [] OTHER -> sm
         ELSE IF update.status \in FailedStatuses
         THEN on_order_failed(sm)
         ELSE sm
    ELSE ledger_scan(sm, 1, update)

(***************************************************************************)
(* get_available_balance / place_buy_order / place_sell_order              *)
(***************************************************************************)
\* query is the outcome of client.get_asset_balance: its 'free' amount, or a
\* failure, which is reported as a balance of 0.
get_available_balance(query) == IF query.ok THEN query.free ELSE 0

\* Decimal(str(float(price) * float(quantity))), in sub-units of an amount
\* unit: the exact product up to the rounding error of the float arithmetic,
\* which is smaller than the granularity of prices, quantities and balances.
required_amounts(price, quantity) ==
    {price * quantity * SubUnits + e : e \in (0 - FloatErr)..FloatErr}

\* A faulty variant: the operands of the comparison are swapped.
insufficient_balance_swapped(available_balance, required_amount) ==
    required_amount < available_balance * SubUnits

\* available_balance < Decimal(str(required_amount)): line 293.
insufficient_balance(available_balance, required_amount) ==
    available_balance * SubUnits < required_amount

\* client.create_order: the exchange either raises or accepts the order and
\* returns it with the next order id and status NEW.
create_order(ex, side, quantity, price) ==
    Append(ex, [side |-> side, quantity |-> quantity, price |-> price])

\* place_buy_order(price, quantity) run to completion.  required_amount is
\* one value of required_amounts(price, quantity); accept tells whether
\* create_order returns or raises.  result is "ok" when the call returns the
\* order, and the exception it raises otherwise.
place_buy_order(sm, ex, price, quantity, query, required_amount, accept) ==
    IF insufficient_balance(get_available_balance(query), required_amount)
    THEN [sm |-> sm, exchange |-> ex, result |-> "ValueError"]
    ELSE IF ~accept
    THEN [sm |-> sm, exchange |-> ex, result |-> "ExchangeError"]
    ELSE LET buy_order == Order(Len(ex) + 1, "BUY", quantity, price, "NEW")
             recorded == [sm EXCEPT !.trades = record_trade(sm.trades, buy_order)]
         IN  [sm |-> transition(recorded, BUYING, Some(buy_order)).sm,
              exchange |-> create_order(ex, "BUY", quantity, price),
              result |-> "ok"]

\* quantity.quantize(Decimal('0.001')) under the default decimal context,
\* whose rounding is ROUND_HALF_EVEN.
LotStep == 10
quantize(quantity) ==
    LET steps == quantity \div LotStep
        rest == quantity % LotStep
    IN  IF 2 * rest < LotStep THEN steps * LotStep
        ELSE IF 2 * rest > LotStep THEN (steps + 1) * LotStep
        ELSE IF steps % 2 = 0 THEN steps * LotStep
        ELSE (steps + 1) * LotStep

\* A faulty variant: the check for a position is missing.
has_position_unchecked(position) == TRUE

\* if not self.current_position: raise ValueError: line 343.
has_position(position) == position # None

place_sell_order(sm, ex, price, quantity, accept) ==
    LET formatted_quantity == quantize(quantity) IN
    IF ~has_position(sm.current_position)
    THEN [sm |-> sm, exchange |-> ex, result |-> "ValueError"]
    ELSE IF ~accept
    THEN [sm |-> sm, exchange |-> ex, result |-> "ExchangeError"]
    ELSE LET sell_order == Order(Len(ex) + 1, "SELL", formatted_quantity, price, "NEW")
         IN  [sm |-> transition(sm, SELLING, Some(sell_order)).sm,
              exchange |-> create_order(ex, "SELL", formatted_quantity, price),
              result |-> "ok"]

\* A function evaluated on its own: its name, its arguments and its result,
\* both sequences of scaled integers.
Eval(name, args, result) == [name |-> name, args |-> args, result |-> result]

\* The outcome of a decision cycle of the TradingEngine: the state it ran
\* in ("" before the first cycle), the signal generated, the order the cycle
\* placed ("" for none) and the exception it ended with ("" for none).
Outcome(state, signal, placed, error) ==
    [state |-> state, signal |-> signal, placed |-> placed, error |-> error]

\* A Python dict is a function; the empty dict is the empty function.
put(dict, key, value) ==
    [k \in DOMAIN dict \cup {key} |-> IF k = key THEN value ELSE dict[k]]

pop(dict, key) == [k \in DOMAIN dict \ {key} |-> dict[k]]

get(dict, key, default) == IF key \in DOMAIN dict THEN dict[key] ELSE default

\* OrderBook.__init__
OrderBook == [bids |-> <<>>, asks |-> <<>>, cancel_counts |-> <<>>]

\* The _candle_manager task: pc is "none" before start(), "align" in the
\* sleep up to the next 5-minute boundary, "interval" in the sleep of 300
\* seconds with a candle open; wake is the boundary at which the sleep ends;
\* first is the first boundary at which the task opened a candle (0 for
\* none).
Task(pc, wake, first) == [pc |-> pc, wake |-> wake, first |-> first]

\* The place_buy_order coroutines of the model.
Calls == {1, 2}

\* A place_buy_order coroutine: where it is ("idle" before the call,
\* "balance" suspended in get_available_balance, "create" suspended in
\* create_order with the request on its way, "accepted" suspended in
\* create_order with the order accepted by the exchange, "done" returned,
\* "failed" raised), the state it was called in, whether another call was
\* in progress during it, its arguments, and the id the exchange gave
\* its order (0 for none).
\* A place_sell_order coroutine is "create_sell" and "accepted_sell" while
\* suspended in create_order.
Coroutine(pc, started, overlapped, price, quantity, order) ==
    [pc |-> pc, started |-> started, overlapped |-> overlapped,
     price |-> price, quantity |-> quantity, order |-> order]

\* The handlers start() gives a _handle_socket task to.
Handlers == {"_handle_ticker", "_handle_trades", "_handle_depth"}

\* The stop() coroutine: pc is "idle", "closing" (suspended in
\* close_connection), "returned" or "raised".
StopCall(pc, stops) == [pc |-> pc, calls |-> stops]

\* The get_market_snapshot coroutine: pc is "idle", "attempt" (about to run
\* the loop body for index attempt), "sleep" (in asyncio.sleep after the
\* body failed), "returned" or "raised"; attempts counts the loop bodies run,
\* delays lists the sleeps, result is the value returned.
SnapshotCall(pc, max_retries, retry_delay, attempt, attempts, delays, result) ==
    [pc |-> pc, max_retries |-> max_retries, retry_delay |-> retry_delay,
     attempt |-> attempt, attempts |-> attempts, delays |-> delays,
     result |-> result]

\* binance_monitor.main: pc is "idle", "connecting" (at the top of the
\* outer loop), "no_network" (in the sleep of 5 seconds), "monitoring" (in
\* the inner loop), "backoff" (in the sleep of wait_time) or "exited"; twm
\* tells whether a ThreadedWebsocketManager is held.
Main(pc, twm, reconnect_count, wait_time) ==
    [pc |-> pc, twm |-> twm, reconnect_count |-> reconnect_count,
     wait_time |-> wait_time]

\* The TradingEngine and its start() coroutine: pc is "idle" before the
\* call, "cycle" inside _trading_loop, "sleep1" in the sleep that ends a
\* cycle, "sleep5" in the sleep after a cycle raised, "returned" after the
\* loop has ended.
Engine(pc, active) == [pc |-> pc, active |-> active]

(***************************************************************************)
(* The state machine                                                       *)
(***************************************************************************)
\* The record of the last call: the operation, how it ended and, for an
\* order update that changed the state manager, the update's id and status.
Call(op, result, orderId, status) ==
    [op |-> op, result |-> result, orderId |-> orderId, status |-> status]

Updates ==
    [orderId : OrderIds, status : Statuses \ {"FILLED"}, price : {None}]
        \cup [orderId : OrderIds, status : {"FILLED"}, price : UpdatePrices]

BalanceQueries ==
    [ok : {TRUE}, free : Balances] \cup [ok : {FALSE}, free : {0}]

Init ==
    /\ current_state = READY_TO_BUY
    /\ current_position = None
    /\ active_order = None
    /\ trades = <<>>
    /\ exchange = <<>>
    /\ position_order = 0
    /\ last = Call("init", "", 0, "")
    /\ fn = Eval("", <<>>, <<>>)
    /\ cycle = Outcome("", None, "", "")
    /\ calls = [i \in Calls |-> Coroutine("idle", "", FALSE, 0, 0, 0)]
    /\ order_book = OrderBook
    /\ candles = <<>>
    /\ current_candle = None
    /\ last_price = None
    /\ candle_task = Task("none", 0, 0)
    /\ now = 0
    /\ volume_24h = None
    /\ client = None
    /\ socket_tasks = <<>>
    /\ sockets = [h \in Handlers |-> "none"]
    /\ stop_call = StopCall("idle", 0)
    /\ snapshot_call = SnapshotCall("idle", 0, 0, 0, 0, <<>>, None)
    /\ monitor = Main("idle", FALSE, 0, 0)
    /\ reports = {}
    /\ rsi_values = <<>>
    /\ macd_values = <<>>
    /\ engine = Engine("idle", FALSE)

\* The order a position comes from: the order that was active when it was
\* created.
origin(sm) ==
    IF sm.current_position = None THEN 0
    ELSE IF sm.current_position = current_position THEN position_order
    ELSE IF active_order = None THEN 0
    ELSE active_order[1].id

Set(sm) ==
    /\ current_state' = sm.current_state
    /\ current_position' = sm.current_position
    /\ active_order' = sm.active_order
    /\ trades' = sm.trades
    /\ position_order' = origin(sm)

PlaceBuyOrder ==
    /\ Len(exchange) < MaxOrders
    /\ \E price \in BuyPrices, quantity \in BuyQuantities,
          query \in BalanceQueries, accept \in BOOLEAN :
       \E required_amount \in required_amounts(price, quantity) :
          LET r == place_buy_order(SM, exchange, price, quantity, query,
                                   required_amount, accept)
          IN  /\ Set(r.sm)
              /\ exchange' = r.exchange
              /\ last' = Call("place_buy_order", r.result, 0, "")
              /\ UNCHANGED <<fn, cycle, calls, market_vars, service_vars, monitor, reports, indicator_vars, engine>>

PlaceSellOrder ==
    /\ Len(exchange) < MaxOrders
    /\ \E price \in SellPrices, quantity \in SellQuantities, accept \in BOOLEAN :
          LET r == place_sell_order(SM, exchange, price, quantity, accept)
          IN  /\ Set(r.sm)
              /\ exchange' = r.exchange
              /\ last' = Call("place_sell_order", r.result, 0, "")
              /\ UNCHANGED <<fn, cycle, calls, market_vars, service_vars, monitor, reports, indicator_vars, engine>>

HandleOrderUpdate ==
    \E update \in Updates :
        LET sm == handle_order_update(SM, update)
        IN  /\ Set(sm)
            /\ UNCHANGED exchange
            /\ last' = IF sm = SM
                       THEN Call("handle_order_update", "ignored", 0, "")
                       ELSE Call("handle_order_update", "applied",
                                 update.orderId, update.status)
            /\ UNCHANGED <<fn, cycle, calls, market_vars, service_vars, monitor, reports, indicator_vars, engine>>

Next == PlaceBuyOrder \/ PlaceSellOrder \/ HandleOrderUpdate

Spec == Init /\ [][Next]_vars

(***************************************************************************)
(* Properties of place_buy_order, place_sell_order and handle_order_update *)
(***************************************************************************)
\* C2: a Position (of quantity > 0) exists exactly when the state is
\* READY_TO_SELL or SELLING; it is None in READY_TO_BUY and BUYING.
C2_PositionIffHolding ==
    /\ current_state \in {READY_TO_SELL, SELLING} <=> current_position # None
    /\ current_position # None => current_position[1].quantity > 0

C2_Witness ==
    /\ current_state = SELLING
    /\ current_position # None
    /\ last = Call("place_sell_order", "ok", 0, "")

\* C3: place_buy_order called outside READY_TO_BUY submits no order to the
\* exchange and leaves state, Position, active order and ledger unchanged.
C3_BuyOnlyWhenReadyToBuy ==
    [][(last'.op = "place_buy_order" /\ current_state # READY_TO_BUY)
          => UNCHANGED <<current_state, current_position, active_order,
                         trades, exchange>>]_vars

\* C4: with an available balance (0 when the query fails) below
\* price * quantity, place_buy_order raises the insufficient-balance error,
\* submits no order and changes nothing.
C4_InsufficientBalanceRejected ==
    \A price \in BuyPrices, quantity \in BuyQuantities,
       query \in BalanceQueries, accept \in BOOLEAN :
    \A required_amount \in required_amounts(price, quantity) :
        LET r == place_buy_order(SM, exchange, price, quantity, query,
                                 required_amount, accept)
        IN  get_available_balance(query) < price * quantity
                => r.result = "ValueError" /\ r.sm = SM /\ r.exchange = exchange

C4_Witness ==
    /\ last = Call("place_buy_order", "ValueError", 0, "")
    /\ current_state = READY_TO_BUY
    /\ trades = <<>>

\* C5: place_buy_order in READY_TO_BUY with sufficient balance and an order
\* the exchange accepts ends in BUYING, with the BUY order of the returned id
\* as active order and exactly one more trade in the ledger: OPEN, that order
\* as buy leg, no sell leg, no profit_loss.
C5_BuyAccepted ==
    \A price \in BuyPrices, quantity \in BuyQuantities,
       query \in BalanceQueries, accept \in BOOLEAN :
    \A required_amount \in required_amounts(price, quantity) :
        LET r == place_buy_order(SM, exchange, price, quantity, query,
                                 required_amount, accept)
            id == Len(r.exchange)
            buy_order == Order(id, "BUY", quantity, price, "NEW")
        IN  (/\ current_state = READY_TO_BUY
             /\ get_available_balance(query) >= price * quantity
             /\ r.result = "ok")
                => /\ r.exchange = Append(exchange, [side |-> "BUY",
                                                     quantity |-> quantity,
                                                     price |-> price])
                   /\ r.sm.current_state = BUYING
                   /\ r.sm.active_order = Some(buy_order)
                   /\ Len(r.sm.trades) = Len(trades) + 1
                   /\ SubSeq(r.sm.trades, 1, Len(trades)) = trades
                   /\ r.sm.trades[Len(trades) + 1] =
                          [buy_order |-> Some(buy_order), sell_order |-> None,
                           profit_loss |-> None, status |-> "OPEN"]
                   /\ r.sm.current_position = current_position

C5_Witness ==
    /\ last = Call("place_buy_order", "ok", 0, "")
    /\ current_state = BUYING
    /\ active_order # None
    /\ active_order[1].id = Len(exchange)
    /\ Len(trades) = 2

\* C6: place_sell_order in READY_TO_BUY fails, submits no order and changes
\* nothing.
C6_SellWithoutPositionRejected ==
    \A price \in SellPrices, quantity \in SellQuantities, accept \in BOOLEAN :
        LET r == place_sell_order(SM, exchange, price, quantity, accept)
        IN  current_state = READY_TO_BUY
                => r.result # "ok" /\ r.sm = SM /\ r.exchange = exchange

C6_Witness ==
    /\ last = Call("place_sell_order", "ValueError", 0, "")
    /\ current_state = READY_TO_BUY
    /\ Len(trades) = 1

\* The largest multiple of the lot step that does not exceed the quantity.
truncated(quantity) == (quantity \div LotStep) * LotStep

\* C12: place_sell_order submits the requested quantity truncated to the lot
\* step of 0.001: the largest multiple of 0.001 that does not exceed it
\* (0.2567 gives 0.256), so never more than was requested.
C12_SellQuantityTruncated ==
    \A price \in SellPrices, quantity \in SellQuantities, accept \in BOOLEAN :
        LET r == place_sell_order(SM, exchange, price, quantity, accept)
        IN  r.result = "ok" =>
                LET submitted == r.exchange[Len(r.exchange)].quantity
                IN  submitted = truncated(quantity) /\ submitted <= quantity

\* Requested quantities below the minimum order quantity.
DustQuantities == {0, 4, 5}
MinQty == 10

\* C13: place_sell_order fails, submits no order and changes nothing when
\* the quantity normalized to the lot step is below the minimum order
\* quantity of 0.001, as when it normalizes to 0.
C13_SellBelowMinimumRejected ==
    \A price \in SellPrices, quantity \in DustQuantities, accept \in BOOLEAN :
        LET r == place_sell_order(SM, exchange, price, quantity, accept)
        IN  quantize(quantity) < MinQty
                => r.result # "ok" /\ r.sm = SM /\ r.exchange = exchange

\* The update is for the active order, which is an order of the given side.
ForActiveOrder(update, side) ==
    /\ active_order # None
    /\ active_order[1].side = side
    /\ update.orderId = active_order[1].id

\* C7: FILLED for the active BUY order while BUYING creates the Position from
\* the quantity filled (that of the order at the exchange) and the fill
\* price, and moves to READY_TO_SELL.
C7_BuyFilled ==
    \A update \in Updates :
        (/\ current_state = BUYING
         /\ ForActiveOrder(update, "BUY")
         /\ update.status = "FILLED"
         /\ update.price # None)
            => LET sm == handle_order_update(SM, update)
               IN  /\ sm.current_state = READY_TO_SELL
                   /\ sm.current_position =
                          Some([quantity |-> exchange[update.orderId].quantity,
                                entry_price |-> update.price[1]])

C7_Witness ==
    /\ last.op = "handle_order_update"
    /\ last.result = "applied"
    /\ last.status = "FILLED"
    /\ current_state = READY_TO_SELL
    /\ current_position = Some([quantity |-> 2500, entry_price |-> 40])

\* The trades of the ledger whose buy leg is the order the Position comes from.
MatchingTrades ==
    {i \in 1..Len(trades) :
        trades[i].buy_order # None /\ trades[i].buy_order[1].id = position_order}

\* C8: FILLED for the active SELL order while SELLING closes the matching OPEN
\* trade (sell leg the SELL order, profit_loss by the formula), clears the
\* Position and moves to READY_TO_BUY.
C8_SellFilledClosesMatchingTrade ==
    [][(/\ last'.op = "handle_order_update"
        /\ last'.status = "FILLED"
        /\ current_state = SELLING
        /\ active_order # None
        /\ active_order[1].side = "SELL"
        /\ last'.orderId = active_order[1].id)
          => /\ current_state' = READY_TO_BUY
             /\ current_position' = None
             /\ \E i \in MatchingTrades :
                  LET buy == trades[i].buy_order[1]
                      sell == active_order[1]
                      buy_value == buy.quantity * buy.price
                      sell_value == sell.quantity * sell.price
                  IN  /\ trades[i].status = "OPEN"
                      /\ trades'[i].status = "CLOSED"
                      /\ trades'[i].sell_order = active_order
                      /\ trades'[i].buy_order = trades[i].buy_order
                      /\ trades'[i].profit_loss =
                             Some(1000 * sell_value - 1000 * buy_value
                                      - (sell_value + buy_value))]_vars

\* C9: CANCELED, REJECTED or EXPIRED for the active order takes BUYING back to
\* READY_TO_BUY (Position still None) and SELLING back to READY_TO_SELL
\* (Position unchanged), and never leaves the machine in BUYING or SELLING.
C9_FailedOrderReverts ==
    \A update \in Updates :
        (/\ active_order # None
         /\ update.orderId = active_order[1].id
         /\ update.status \in FailedStatuses)
            => LET sm == handle_order_update(SM, update)
               IN  /\ sm.current_state \notin {BUYING, SELLING}
                   /\ current_state = BUYING
                        => sm.current_state = READY_TO_BUY
                            /\ sm.current_position = None
                   /\ current_state = SELLING
                        => sm.current_state = READY_TO_SELL
                            /\ sm.current_position = current_position
                            /\ sm.current_position # None

C9_Witness ==
    /\ last.op = "handle_order_update"
    /\ last.result = "applied"
    /\ last.status \in FailedStatuses
    /\ current_state = READY_TO_SELL
    /\ active_order # None
    /\ active_order[1].id = last.orderId
    /\ active_order[1].side = "SELL"

\* C10: delivering an update a second time changes nothing: state, Position,
\* active order and ledger are those after the first delivery.
C10_UpdateIdempotent ==
    \A update \in Updates :
        handle_order_update(handle_order_update(SM, update), update)
            = handle_order_update(SM, update)

C10_Witness ==
    /\ last.op = "handle_order_update"
    /\ last.result = "applied"
    /\ last.status = "FILLED"
    /\ current_state = READY_TO_BUY
    /\ trades # <<>>
    /\ trades[Len(trades)].profit_loss # None
    /\ handle_order_update(SM, [orderId |-> last.orderId, status |-> "FILLED",
                                price |-> Some(40)]) = SM

\* No trade of the ledger carries a sell leg while it is OPEN: the sell
\* leg is set by the FILLED update of the active SELL order, in the step
\* that closes the trade, and by nothing else.  So the scan of the ledger
\* (lines 145-156) never finds a trade to close.
OpenTradeHasNoSellLeg ==
    \A i \in 1..Len(trades) :
        trades[i].status = "OPEN" => trades[i].sell_order = None

\* The update's id is that of the sell leg of an OPEN trade.
ForOpenSellLeg(update) ==
    \E i \in 1..Len(trades) :
        /\ trades[i].status = "OPEN"
        /\ trades[i].sell_order # None
        /\ trades[i].sell_order[1].id = update.orderId

\* C28: handle_order_update leaves state, Position, active order and ledger
\* as they are when the update has no order id or no status, when its id is
\* neither that of the active order nor that of the sell leg of an OPEN
\* trade, and when its status is none of FILLED, CANCELED, REJECTED, EXPIRED.
C28_OtherUpdatesIgnored ==
    \A update \in Updates :
        (\/ update.orderId = 0
         \/ update.status = ""
         \/ /\ ~(active_order # None /\ update.orderId = active_order[1].id)
            /\ ~ForOpenSellLeg(update)
         \/ update.status \notin {"FILLED"} \cup FailedStatuses)
            => handle_order_update(SM, update) = SM

C28_Witness ==
    /\ last.op = "handle_order_update"
    /\ last.result = "ignored"
    /\ current_state = SELLING
    /\ current_position # None
    /\ active_order # None
    /\ Len(trades) = 2

(***************************************************************************)
(* transition() called directly                                            *)
(***************************************************************************)
\* The state manager driven as src/src/test_state_manager.py drives it:
\* transition() called directly with an Order built by the caller, and
\* order updates delivered by hand.
TransitionOrders ==
    {None} \cup {Some(Order(id, side, q, p, "NEW")) :
                    id \in 1..2, side \in {"BUY", "SELL"},
                    q \in BuyQuantities, p \in BuyPrices}

TransitionCall ==
    \E new_state \in TradingState, order \in TransitionOrders :
        LET r == transition(SM, new_state, order)
        IN  /\ Set(r.sm)
            /\ UNCHANGED exchange
            /\ last' = Call("transition", IF r.ok THEN "True" ELSE "False",
                            IF order = None THEN 0 ELSE order[1].id, new_state)
            /\ UNCHANGED <<fn, cycle, calls, market_vars, service_vars, monitor, reports, indicator_vars, engine>>

NextTransition == TransitionCall \/ HandleOrderUpdate

SpecTransition == Init /\ [][NextTransition]_vars

AllowedTransitions ==
    {<<READY_TO_BUY, BUYING>>, <<BUYING, READY_TO_SELL>>,
     <<BUYING, READY_TO_BUY>>, <<READY_TO_SELL, SELLING>>,
     <<SELLING, READY_TO_BUY>>, <<SELLING, READY_TO_SELL>>}

\* C1: transition(t) from state s returns True and makes t the current state
\* exactly for the six pairs (s, t) of the table; for every other pair it
\* returns False and leaves the current state and the active order as they
\* were.  The initial state is READY_TO_BUY.
C1_TransitionTable ==
    /\ last.op = "init" => current_state = READY_TO_BUY
    /\ \A new_state \in TradingState, order \in TransitionOrders :
        LET r == transition(SM, new_state, order)
        IN  IF <<current_state, new_state>> \in AllowedTransitions
            THEN r.ok /\ r.sm.current_state = new_state
            ELSE ~r.ok /\ r.sm.current_state = current_state
                       /\ r.sm.active_order = active_order

C1_Witness ==
    /\ last.op = "transition"
    /\ last.result = "False"
    /\ last.status = BUYING
    /\ current_state = SELLING
    /\ active_order # None

(***************************************************************************)
(* TradingEngine (src/src/core/trading_engine.py)                          *)
(*                                                                         *)
(* Units.  Sub-scores and sentiment values are in 1/1000, weights in 1/10, *)
(* total_confidence and min_confidence in 1/10000 (0.79 is 7900).  The     *)
(* floats of the code are exact at these values.                           *)
(***************************************************************************)
\* The two state managers the engine is given: StateManager, whose
\* get_available_balance is a coroutine function, and the MockStateManager
\* of test_trading_engine.py, where it is a plain method.
StateManagers == {"StateManager", "MockStateManager"}

config(min_confidence) ==
    [min_confidence |-> min_confidence,
     max_position_size |-> 100000,
     risk_per_trade |-> 1,
     technical_weight |-> 4,
     sentiment_weight |-> 3,
     correlation_weight |-> 3]

MarketCondition(price, correlation, sentiment, signals, imbalance, fear_greed) ==
    [price |-> price, btc_correlation |-> correlation,
     market_sentiment |-> sentiment, technical_signals |-> signals,
     order_book_imbalance |-> imbalance, fear_greed_index |-> fear_greed]

TradingSignal(action, confidence, price, quantity) ==
    [action |-> action, confidence |-> confidence, price |-> price,
     quantity |-> quantity]

abs(x) == IF x < 0 THEN -x ELSE x

min(x, y) == IF x <= y THEN x ELSE y

count(b) == IF b THEN 1 ELSE 0

analyze_technical_signals(condition) ==
    LET signals == condition.technical_signals
        ma_bullish == signals.ma_signal > 0
        rsi_bullish == 30 <= signals.rsi /\ signals.rsi <= 70
        macd_bullish == signals.macd > 0
        ob_bullish == condition.order_book_imbalance > 0
        bullish_count == count(ma_bullish) + count(rsi_bullish)
                            + count(macd_bullish) + count(ob_bullish)
    IN  (bullish_count * 1000) \div 4

\* A faulty variant: the combined sentiment is returned with its sign.
analyze_sentiment_signals_signed(condition) ==
    LET sentiment_score == condition.market_sentiment
        fear_greed_normalized == condition.fear_greed_index * 10
    IN  (sentiment_score + fear_greed_normalized) \div 2

analyze_sentiment_signals(condition) ==
    LET sentiment_score == condition.market_sentiment
        fear_greed_normalized == condition.fear_greed_index * 10
        combined_sentiment == (sentiment_score + fear_greed_normalized) \div 2
    IN  abs(combined_sentiment)

analyze_correlation_signals(condition) ==
    min(abs(condition.btc_correlation), 1000)

total_confidence(cfg, condition) ==
    analyze_technical_signals(condition) * cfg.technical_weight
        + analyze_sentiment_signals(condition) * cfg.sentiment_weight
        + analyze_correlation_signals(condition) * cfg.correlation_weight

\* _calculate_position_size calls get_available_balance() without awaiting
\* it.  With StateManager the call yields a coroutine object and
\* balance * risk_per_trade raises TypeError; with a plain method it yields
\* the balance.  risk_per_trade is in 1/10; the quotients are exact for the
\* prices and balances of the model.
calculate_position_size(state_manager, cfg, balance, current_price) ==
    IF state_manager = "StateManager"
    THEN [error |-> "TypeError", quantity |-> 0]
    ELSE LET risk_amount == (balance * cfg.risk_per_trade) \div 10
             quantity == risk_amount \div current_price
             max_quantity == cfg.max_position_size \div current_price
         IN  [error |-> "", quantity |-> min(quantity, max_quantity)]

generate_trading_signal_any_state(state, state_manager, cfg, balance, condition) ==
    LET confidence == total_confidence(cfg, condition)
        action == IF state = READY_TO_BUY THEN "BUY" ELSE "SELL"
        size == calculate_position_size(state_manager, cfg, balance,
                                        condition.price)
    IN  IF confidence >= cfg.min_confidence
        THEN IF size.error # ""
             THEN [error |-> size.error, signal |-> None]
             ELSE [error |-> "",
                   signal |-> Some(TradingSignal(action, confidence,
                                                 condition.price,
                                                 size.quantity))]
        ELSE [error |-> "", signal |-> None]

generate_trading_signal(state, state_manager, cfg, balance, condition) ==
    IF state \notin {READY_TO_BUY, READY_TO_SELL}
    THEN [error |-> "", signal |-> None]
    ELSE LET confidence == total_confidence(cfg, condition)
             action == IF state = READY_TO_BUY THEN "BUY" ELSE "SELL"
             size == calculate_position_size(state_manager, cfg, balance,
                                             condition.price)
         IN  IF confidence >= cfg.min_confidence
             THEN IF size.error # ""
                  THEN [error |-> size.error, signal |-> None]
                  ELSE [error |-> "",
                        signal |-> Some(TradingSignal(action, confidence,
                                                      condition.price,
                                                      size.quantity))]
             ELSE [error |-> "", signal |-> None]

min_order_value == 50000

\* adjusted_quantity = (available_balance * Decimal('0.5')) / signal.price
adjusted_quantity(available_balance, price) ==
    (available_balance \div 2) \div price

\* The balance check of _execute_signal (lines 245-257): the quantity the
\* BUY signal goes on with, none when the function returns.
checked_quantity(available_balance, signal) ==
    IF available_balance < signal.price * signal.quantity
    THEN IF available_balance \div 2 >= min_order_value
         THEN Some(adjusted_quantity(available_balance, signal.price))
         ELSE None
    ELSE Some(signal.quantity)

\* _execute_signal; signal is the TradingSignal object afterwards.  BUY: the
\* balance is awaited, which raises TypeError for the plain method of
\* MockStateManager; with StateManager the quantity is checked against the
\* balance and place_buy_order is called with stop_loss and take_profit,
\* which StateManager.place_buy_order does not take, so the call raises
\* TypeError, which is not an insufficient-balance error and is raised
\* again.  Both are caught and logged by the outer handler.  SELL:
\* place_sell_order is called; the one of MockStateManager records the
\* order.
execute_signal(sm, ex, state_manager, signal, balance, accept) ==
    IF signal.action = "BUY"
    THEN IF state_manager = "MockStateManager"
         THEN [sm |-> sm, exchange |-> ex, placed |-> "", signal |-> signal]
         ELSE LET quantity == checked_quantity(balance, signal)
              IN  [sm |-> sm, exchange |-> ex, placed |-> "",
                   signal |-> IF quantity = None THEN signal
                              ELSE [signal EXCEPT !.quantity = quantity[1]]]
    ELSE IF state_manager = "MockStateManager"
    THEN [sm |-> sm, exchange |-> ex, placed |-> "SELL", signal |-> signal]
    ELSE LET r == place_sell_order(sm, ex, signal.price, signal.quantity, accept)
         IN  [sm |-> r.sm, exchange |-> r.exchange,
              placed |-> IF r.result = "ok" THEN "SELL" ELSE "",
              signal |-> signal]

trading_loop(sm, ex, state_manager, cfg, balance, condition, accept) ==
    LET g == generate_trading_signal(sm.current_state, state_manager, cfg,
                                     balance, condition)
    IN  IF g.error # ""
        THEN [sm |-> sm, exchange |-> ex, outcome |-> Outcome(sm.current_state, None, "", g.error)]
        ELSE IF g.signal # None /\ g.signal[1].confidence >= cfg.min_confidence
        THEN LET e == execute_signal(sm, ex, state_manager, g.signal[1],
                                     balance, accept)
             IN  [sm |-> e.sm, exchange |-> e.exchange,
                  outcome |-> Outcome(sm.current_state, Some(e.signal),
                                      e.placed, "")]
        ELSE [sm |-> sm, exchange |-> ex, outcome |-> Outcome(sm.current_state, g.signal, "", "")]

MinConfidences == {7000, 8000}
EngineBalances == {1000000}

MarketConditions ==
    {MarketCondition(40, c, s, [ma_signal |-> ma, rsi |-> rsi, macd |-> 1],
                     1, 50) :
        c \in {-1200, 500, 800}, s \in {-1000, 500},
        ma \in {-1, 1}, rsi \in {50}}

DecisionCycle ==
    /\ \E state_manager \in StateManagers, min_confidence \in MinConfidences,
          balance \in EngineBalances, condition \in MarketConditions,
          accept \in BOOLEAN :
          LET r == trading_loop(SM, exchange, state_manager,
                                config(min_confidence), balance, condition,
                                accept)
          IN  /\ Set(r.sm)
              /\ exchange' = r.exchange
              /\ cycle' = r.outcome
    /\ UNCHANGED <<last, fn, calls, market_vars, service_vars, monitor, reports, indicator_vars, engine>>

NextEngine == DecisionCycle \/ TransitionCall

SpecEngine == Init /\ [][NextEngine]_vars

\* C14: in a ready state the fused confidence is the weighted sum
\* 0.4 * tech + 0.3 * sent + 0.3 * corr of the three sub-scores, and the
\* decision cycle emits a signal exactly when it is at least
\* min_confidence: the sub-scores 1.0, 0.5 and 0.8 give 0.79, a signal for
\* min_confidence 0.7 and none for 0.8.
C14_SignalIffConfident ==
    \A state_manager \in StateManagers, min_confidence \in MinConfidences,
       balance \in EngineBalances, condition \in MarketConditions,
       accept \in BOOLEAN :
        LET r == trading_loop(SM, exchange, state_manager,
                              config(min_confidence), balance, condition,
                              accept).outcome
            fused == 4 * analyze_technical_signals(condition)
                        + 3 * analyze_sentiment_signals(condition)
                        + 3 * analyze_correlation_signals(condition)
        IN  current_state \in {READY_TO_BUY, READY_TO_SELL} =>
                /\ r.signal # None <=> fused >= min_confidence
                /\ r.signal # None => r.signal[1].confidence = fused

\* C15: while the state machine is in BUYING or SELLING a decision cycle
\* generates no signal and places no order, whatever the confidence; a
\* cycle produces at most one signal.
C15_NoSignalMidOrder ==
    \A state_manager \in StateManagers, min_confidence \in MinConfidences,
       balance \in EngineBalances, condition \in MarketConditions,
       accept \in BOOLEAN :
        LET r == trading_loop(SM, exchange, state_manager,
                              config(min_confidence), balance, condition,
                              accept)
        IN  /\ Len(r.outcome.signal) <= 1
            /\ current_state \in {BUYING, SELLING} =>
                    /\ r.outcome.signal = None
                    /\ r.outcome.placed = ""
                    /\ r.sm = SM
                    /\ r.exchange = exchange

C15_Witness ==
    /\ current_state = SELLING
    /\ cycle = Outcome(SELLING, None, "", "")
    /\ active_order # None

(***************************************************************************)
(* place_buy_order as a coroutine: the steps between its suspension points *)
(***************************************************************************)
in_progress(call) == call.pc \in {"balance", "create", "accepted"}

\* place_buy_order is called and suspends in get_available_balance.
StartBuy(i) ==
    /\ calls[i].pc = "idle"
    /\ \E price \in FillPrices, quantity \in BuyQuantities :
          calls' = [j \in Calls |->
                      IF j = i
                      THEN Coroutine("balance", current_state,
                                     \E k \in Calls : in_progress(calls[k]),
                                     price, quantity, 0)
                      ELSE IF in_progress(calls[j])
                      THEN [calls[j] EXCEPT !.overlapped = TRUE]
                      ELSE calls[j]]
    /\ UNCHANGED <<state_vars, fn, cycle, market_vars, service_vars, monitor, reports, indicator_vars, engine>>

\* The balance arrives: the call raises ValueError, or sends the order and
\* suspends in create_order.
BalanceReturns(i) ==
    /\ calls[i].pc = "balance"
    /\ \E query \in BalanceQueries :
       \E required_amount \in required_amounts(calls[i].price, calls[i].quantity) :
          IF insufficient_balance(get_available_balance(query), required_amount)
          THEN /\ calls' = [calls EXCEPT ![i].pc = "failed"]
               /\ last' = Call("place_buy_order", "ValueError", 0, "")
          ELSE /\ calls' = [calls EXCEPT ![i].pc = "create"]
               /\ UNCHANGED last
    /\ UNCHANGED <<current_state, current_position, active_order, trades,
                   exchange, position_order, fn, cycle, market_vars, service_vars,
                   monitor, reports, indicator_vars, engine>>

\* The exchange accepts the order; the coroutine has not resumed yet.
CreateOrderAccepted(i) ==
    /\ calls[i].pc = "create"
    /\ Len(exchange) < MaxOrders
    /\ exchange' = create_order(exchange, "BUY", calls[i].quantity, calls[i].price)
    /\ calls' = [calls EXCEPT ![i].pc = "accepted", ![i].order = Len(exchange) + 1]
    /\ UNCHANGED <<current_state, current_position, active_order, trades,
                   position_order, last, fn, cycle, market_vars, service_vars,
                   monitor, reports, indicator_vars, engine>>

\* create_order raises: the call logs and raises.
CreateOrderRaises(i) ==
    /\ calls[i].pc = "create"
    /\ calls' = [calls EXCEPT ![i].pc = "failed"]
    /\ last' = Call("place_buy_order", "ExchangeError", 0, "")
    /\ UNCHANGED <<current_state, current_position, active_order, trades,
                   exchange, position_order, fn, cycle, market_vars, service_vars,
                   monitor, reports, indicator_vars, engine>>

\* create_order returns: the call records the trade, calls
\* transition(BUYING, buy_order) and returns.
ResumeBuy(i) ==
    /\ calls[i].pc = "accepted"
    /\ LET buy_order == Order(calls[i].order, "BUY", calls[i].quantity,
                              calls[i].price, "NEW")
           recorded == [SM EXCEPT !.trades = record_trade(SM.trades, buy_order)]
       IN  Set(transition(recorded, BUYING, Some(buy_order)).sm)
    /\ calls' = [calls EXCEPT ![i].pc = "done"]
    /\ last' = Call("place_buy_order", "ok", 0, "")
    /\ UNCHANGED <<exchange, fn, cycle, market_vars, service_vars, monitor, reports, indicator_vars, engine>>

NextAsync ==
    \/ \E i \in Calls : StartBuy(i)
    \/ \E i \in Calls : BalanceReturns(i)
    \/ \E i \in Calls : CreateOrderAccepted(i)
    \/ \E i \in Calls : CreateOrderRaises(i)
    \/ \E i \in Calls : ResumeBuy(i)
    \/ HandleOrderUpdate

SpecAsync == Init /\ [][NextAsync]_vars

\* The calls of place_buy_order made in READY_TO_BUY while another call was
\* in progress.
OverlappingBuys ==
    {i \in Calls : calls[i].started = READY_TO_BUY /\ calls[i].overlapped}

\* C16: under every interleaving at the suspension points of
\* place_buy_order, two overlapping calls started in READY_TO_BUY submit at
\* most one order to the exchange and add at most one OPEN trade to the
\* ledger.
C16_OverlappingBuysSubmitOnce ==
    /\ Cardinality({i \in OverlappingBuys : calls[i].order # 0}) <= 1
    /\ Cardinality({k \in 1..Len(trades) :
                      /\ trades[k].status = "OPEN"
                      /\ \E i \in OverlappingBuys :
                            trades[k].buy_order[1].id = calls[i].order}) <= 1

(***************************************************************************)
(* OrderBook (src/src/services/market_data.py)                             *)
(*                                                                         *)
(* Prices are whole USDC and quantities whole coins; the imbalance, a      *)
(* float quotient in the code, is the fraction num / den.                  *)
(***************************************************************************)
MaxCancels == 2         \* cancellations counted per price within a minute

BookSides == {"BUY", "buy", "SELL"}
BookPrices == {40, 41}
BookQuantities == {-1, 0, 1, 2}

\* side.upper()
upper(side) ==
    IF side = "buy" THEN "BUY" ELSE IF side = "sell" THEN "SELL" ELSE side

\* A faulty variant: every quantity other than 0 is stored.
stores_nonzero(quantity) == quantity # 0

\* if quantity > 0: line 51.
stores(quantity) == quantity > 0

\* A faulty variant: the level is not removed.
remove_level_kept(book, price) == book

\* book.pop(price, None): line 56.
remove_level(book, price) == pop(book, price)

\* _update_metrics: the cancellation counts are cleared when a minute or
\* more has passed since the last reset.
update_metrics(cancel_counts, minute_passed) ==
    IF minute_passed THEN <<>> ELSE cancel_counts

update(ob, side, price, quantity, minute_passed) ==
    LET is_bid == upper(side) = "BUY"
        book == IF is_bid THEN ob.bids ELSE ob.asks
        new_book == IF stores(quantity) THEN put(book, price, quantity)
                    ELSE remove_level(book, price)
        counted == IF ~stores(quantity) /\ price \in DOMAIN book
                   THEN put(ob.cancel_counts, price,
                            get(ob.cancel_counts, price, 0) + 1)
                   ELSE ob.cancel_counts
    IN  [bids |-> IF is_bid THEN new_book ELSE ob.bids,
         asks |-> IF is_bid THEN ob.asks ELSE new_book,
         cancel_counts |-> update_metrics(counted, minute_passed)]

RECURSIVE sum_values(_)
sum_values(dict) ==
    IF DOMAIN dict = {} THEN 0
    ELSE LET k == CHOOSE x \in DOMAIN dict : TRUE
         IN  dict[k] + sum_values(pop(dict, k))

bid_volume(ob) == sum_values(ob.bids)

ask_volume(ob) == sum_values(ob.asks)

get_imbalance(ob) ==
    LET total_volume == bid_volume(ob) + ask_volume(ob)
    IN  IF total_volume = 0
        THEN [num |-> 0, den |-> 1]
        ELSE [num |-> bid_volume(ob) - ask_volume(ob), den |-> total_volume]

UpdateBook ==
    /\ \E side \in BookSides, price \in BookPrices,
          quantity \in BookQuantities, minute_passed \in BOOLEAN :
          LET ob == update(order_book, side, price, quantity, minute_passed)
          IN  /\ \A p \in DOMAIN ob.cancel_counts :
                    ob.cancel_counts[p] <= MaxCancels
              /\ order_book' = ob
    /\ UNCHANGED <<state_vars, fn, cycle, calls, service_vars, candles, current_candle,
                   last_price, candle_task, now, monitor, reports, indicator_vars, engine>>

NextBook == UpdateBook

SpecBook == Init /\ [][NextBook]_vars

\* C17: after every sequence of update calls get_imbalance() lies in
\* [-1, 1], and it is 0 whenever both sides of the book are empty.
C17_ImbalanceInRange ==
    LET imbalance == get_imbalance(order_book)
    IN  /\ imbalance.den > 0
        /\ -imbalance.den <= imbalance.num
        /\ imbalance.num <= imbalance.den
        /\ (DOMAIN order_book.bids = {} /\ DOMAIN order_book.asks = {})
               => imbalance.num = 0

C17_Witness ==
    /\ DOMAIN order_book.bids = {40}
    /\ DOMAIN order_book.asks = {40, 41}
    /\ get_imbalance(order_book) = [num |-> -2, den |-> 4]
    /\ DOMAIN order_book.cancel_counts # {}

\* C19: update(side, price, quantity) with quantity > 0 sets the level at
\* price on the given side to quantity, and with quantity = 0 removes it;
\* the other levels of that side and the other side are unchanged, and no
\* stored level ever has a quantity <= 0.
C19_UpdateSetsOrRemovesLevel ==
    /\ \A p \in DOMAIN order_book.bids : order_book.bids[p] > 0
    /\ \A p \in DOMAIN order_book.asks : order_book.asks[p] > 0
    /\ \A side \in BookSides, price \in BookPrices,
          quantity \in BookQuantities, minute_passed \in BOOLEAN :
          LET ob == update(order_book, side, price, quantity, minute_passed)
              given == IF side \in {"BUY", "buy"} THEN "bids" ELSE "asks"
              other == IF side \in {"BUY", "buy"} THEN "asks" ELSE "bids"
          IN  /\ quantity > 0 =>
                    price \in DOMAIN ob[given] /\ ob[given][price] = quantity
              /\ quantity = 0 => price \notin DOMAIN ob[given]
              /\ \A p \in BookPrices \ {price} :
                    /\ p \in DOMAIN ob[given] <=> p \in DOMAIN order_book[given]
                    /\ p \in DOMAIN ob[given] =>
                          ob[given][p] = order_book[given][p]
              /\ ob[other] = order_book[other]

C19_Witness ==
    /\ DOMAIN order_book.bids = {41}
    /\ order_book.bids[41] = 2
    /\ DOMAIN order_book.asks = {}
    /\ get(order_book.cancel_counts, 40, 0) = 1

(***************************************************************************)
(* MarketDataService: ticker, trades and the candle manager                *)
(* (src/src/services/market_data.py)                                       *)
(*                                                                         *)
(* Time is counted in 5-minute intervals: boundary b is the wall-clock     *)
(* mark at which interval b begins.  A sleep that ends at a boundary ends  *)
(* just after it, never before.  Prices are whole USDC, volumes whole      *)
(* coins.  The vwap of a candle and the moving averages, which need five   *)
(* candles, are left out.                                                  *)
(***************************************************************************)
MaxIntervals == 4       \* 5-minute boundaries the clock passes
MaxTrades == 2          \* trade events counted into one candle
candle_limit == 1000

StartPrices == {40}
StartVolumes == {1000}
TickerPrices == {0, 41}
TradePrices == {39, 42}
TradeVolumes == {1}

Candle(timestamp, open, high, low, close, volume, trade_count) ==
    [timestamp |-> timestamp, open |-> open, high |-> high, low |-> low,
     close |-> close, volume |-> volume, trades |-> trade_count]

\* What get_price_history returns to start(): the klines of the exchange.
Histories == {<<>>, <<Candle(0, 40, 41, 39, 40, 5, 3)>>}

max(x, y) == IF x >= y THEN x ELSE y

\* deque(maxlen=...).append
append(deque, x, maxlen) ==
    IF Len(deque) < maxlen THEN Append(deque, x) ELSE Append(Tail(deque), x)

\* The order book snapshot start() loads: one bid and one ask.
load_order_book(ob) ==
    update(update(ob, "BUY", 40, 1, FALSE), "SELL", 41, 2, FALSE)

\* _handle_ticker: a price of 0 stands for a frame without 'c'.
handle_ticker(price_before, price) ==
    IF price > 0 THEN Some(price) ELSE price_before

\* A faulty variant: the high of the candle is not raised.
handle_trades_high_kept(candle, price, volume) ==
    IF candle = None
    THEN None
    ELSE Some([candle[1] EXCEPT !.low = min(candle[1].low, price),
                                !.close = price,
                                !.volume = candle[1].volume + volume,
                                !.trades = candle[1].trades + 1])

\* _handle_trades, on the open candle.
handle_trades(candle, price, volume) ==
    IF candle = None
    THEN None
    ELSE Some([candle[1] EXCEPT !.high = max(candle[1].high, price),
                                !.low = min(candle[1].low, price),
                                !.close = price,
                                !.volume = candle[1].volume + volume,
                                !.trades = candle[1].trades + 1])

\* The history after _handle_trades has written to the Candle object that
\* current_candle refers to: a history entry that is that same object
\* changes with it.  A Candle object is identified by its timestamp: the
\* task opens at most one candle per boundary, and the klines lie before
\* the first boundary.
write_through(history, candle, updated) ==
    [k \in DOMAIN history |->
        IF candle # None /\ history[k].timestamp = candle[1].timestamp
        THEN updated[1]
        ELSE history[k]]

\* A faulty variant: the sealed candle stays the open candle.
seal_candle_kept(history, candle) ==
    [candles |-> append(history, candle[1], candle_limit),
     current_candle |-> candle]

\* _candle_manager, lines 788-794: the open candle is appended to the
\* history and current_candle is cleared, with no suspension in between.
seal_candle(history, candle) ==
    [candles |-> append(history, candle[1], candle_limit),
     current_candle |-> None]

\* start(): the client is created, then the initial fetches (price, 24h
\* volume, order book, history), any of which may raise and end the
\* fetching, then the three socket tasks and the candle manager are created
\* and appended to the task list; the manager sleeps up to the next boundary.
Start ==
    /\ candle_task.pc = "none"
    /\ \E fetched \in 0..4, price \in StartPrices, volume \in StartVolumes,
          history \in Histories :
          /\ last_price' = IF fetched >= 1 THEN Some(price) ELSE last_price
          /\ volume_24h' = IF fetched >= 2 THEN Some(volume) ELSE volume_24h
          /\ order_book' = IF fetched >= 3 THEN load_order_book(order_book)
                           ELSE order_book
          /\ candles' = IF fetched >= 4 THEN candles \o history ELSE candles
    /\ client' = Some("AsyncClient")
    /\ socket_tasks' = socket_tasks \o <<"_handle_ticker", "_handle_trades",
                                         "_handle_depth", "_candle_manager">>
    /\ sockets' = [h \in Handlers |-> "connected"]
    /\ candle_task' = Task("align", now + 1, 0)
    /\ stop_call' = StopCall("idle", stop_call.calls)
    /\ UNCHANGED <<state_vars, fn, cycle, calls, current_candle, now,
                   snapshot_call, monitor, reports, indicator_vars, engine>>

\* The wall clock passes a boundary; a task whose sleep has ended runs
\* first.
Tick ==
    /\ now < MaxIntervals
    /\ candle_task.pc \in {"none", "cancelled"} \/ candle_task.wake > now
    /\ now' = now + 1
    /\ UNCHANGED <<state_vars, fn, cycle, calls, service_vars, order_book, candles,
                   current_candle, last_price, candle_task, monitor, reports, indicator_vars, engine>>

\* The ticker socket task receives a frame and handles it.
Ticker ==
    /\ sockets["_handle_ticker"] = "connected"
    /\ \E price \in TickerPrices : last_price' = handle_ticker(last_price, price)
    /\ UNCHANGED <<state_vars, fn, cycle, calls, service_vars, order_book, candles,
                   current_candle, candle_task, now, monitor, reports, indicator_vars, engine>>

\* The trades socket task receives a frame and handles it.
TradeEvent ==
    /\ sockets["_handle_trades"] = "connected"
    /\ current_candle # None => current_candle[1].trades < MaxTrades
    /\ \E price \in TradePrices, volume \in TradeVolumes :
          LET updated == handle_trades(current_candle, price, volume)
          IN  /\ current_candle' = updated
              /\ candles' = write_through(candles, current_candle, updated)
    /\ UNCHANGED <<state_vars, fn, cycle, calls, service_vars, order_book,
                   last_price, candle_task, now, monitor, reports, indicator_vars, engine>>

\* _candle_manager wakes from the sleep up to the boundary: with a price it
\* opens a candle and sleeps 300 seconds; without one it sleeps up to the
\* next boundary.
WakeAlign ==
    /\ candle_task.pc = "align"
    /\ candle_task.wake = now
    /\ IF last_price # None
       THEN /\ current_candle' = Some(Candle(now, last_price[1], last_price[1],
                                             last_price[1], last_price[1], 0, 0))
            /\ candle_task' = Task("interval", now + 1,
                                   IF candle_task.first = 0 THEN now
                                   ELSE candle_task.first)
       ELSE /\ candle_task' = Task("align", now + 1, candle_task.first)
            /\ UNCHANGED current_candle
    /\ UNCHANGED <<state_vars, fn, cycle, calls, service_vars, order_book, candles,
                   last_price, now, monitor, reports, indicator_vars, engine>>

\* _candle_manager wakes from the sleep of 300 seconds: it appends the open
\* candle to the history, clears it, and sleeps up to the next boundary.
WakeInterval ==
    /\ candle_task.pc = "interval"
    /\ candle_task.wake = now
    /\ IF current_candle # None
       THEN /\ candles' = seal_candle(candles, current_candle).candles
            /\ current_candle' = seal_candle(candles, current_candle).current_candle
       ELSE UNCHANGED <<candles, current_candle>>
    /\ candle_task' = Task("align", now + 1, candle_task.first)
    /\ UNCHANGED <<state_vars, fn, cycle, calls, service_vars, order_book, last_price, now,
                   monitor, reports, indicator_vars, engine>>

NextCandle ==
    Start \/ Tick \/ Ticker \/ TradeEvent \/ WakeAlign \/ WakeInterval

SpecCandle == Init /\ [][NextCandle]_vars

\* C18: every candle sealed into the history has low <= open <= high and
\* low <= close <= high, whatever ticker, trade and timer events occurred.
C18_SealedCandleWellFormed ==
    \A k \in 1..Len(candles) :
        /\ candles[k].low <= candles[k].open
        /\ candles[k].open <= candles[k].high
        /\ candles[k].low <= candles[k].close
        /\ candles[k].close <= candles[k].high

C18_Witness ==
    \E k \in 1..Len(candles) :
        /\ candles[k].timestamp >= 1
        /\ candles[k].trades = 2
        /\ candles[k].low < candles[k].open
        /\ candles[k].open < candles[k].high
        /\ candles[k].close = candles[k].low

\* C20: one candle per 5-minute interval, without gaps: from the first
\* boundary at which a candle was opened on, every boundary seals the open
\* candle and opens a new one at that same boundary, so once the manager
\* has handled a boundary every interval that has ended has a sealed candle
\* and the interval that begins has an open one.
C20_OneCandlePerInterval ==
    (candle_task.first > 0 /\ candle_task.wake > now) =>
        /\ \A b \in candle_task.first..(now - 1) :
              \E k \in 1..Len(candles) : candles[k].timestamp = b
        /\ current_candle # None
        /\ current_candle[1].timestamp = now

(***************************************************************************)
(* _calculate_profit_loss called on its own                                *)
(***************************************************************************)
ProfitQuantities == {2500, 2570, 10000}
ProfitPrices == {40, 42, 100, 110}

\* A trade with both legs, as _on_sell_filled hands it to
\* _calculate_profit_loss.
TwoLegs(buy_quantity, buy_price, sell_quantity, sell_price) ==
    Trade(Some(Order(1, "BUY", buy_quantity, buy_price, "FILLED")),
          Some(Order(2, "SELL", sell_quantity, sell_price, "FILLED")),
          None, "OPEN")

CalculateProfitLoss ==
    /\ \E buy_quantity \in ProfitQuantities, buy_price \in ProfitPrices,
          sell_quantity \in ProfitQuantities, sell_price \in ProfitPrices :
          fn' = Eval("calculate_profit_loss",
                     <<buy_quantity, buy_price, sell_quantity, sell_price>>,
                     <<calculate_profit_loss(
                         TwoLegs(buy_quantity, buy_price,
                                 sell_quantity, sell_price))>>)
    /\ UNCHANGED <<state_vars, cycle, calls, market_vars, service_vars, monitor, reports, indicator_vars, engine>>

NextProfit == CalculateProfitLoss

SpecProfit == Init /\ [][NextProfit]_vars

\* C11: for a trade with both legs, profit_loss = sell_qty * sell_price
\* - buy_qty * buy_price - 0.001 * (sell_qty * sell_price + buy_qty *
\* buy_price): the fee of 0.1% is charged on each leg.  Buying 1 at 100 and
\* selling 1 at 110 gives 9.79.  (profit_loss is in 1/10000000 USDC, a
\* value in 1/10000 USDC, so the formula is taken times 1000.)
C11_ProfitLossNetOfFees ==
    fn.name = "calculate_profit_loss" =>
        LET buy_value == fn.args[1] * fn.args[2]
            sell_value == fn.args[3] * fn.args[4]
        IN  /\ fn.result[1] =
                   1000 * sell_value - 1000 * buy_value
                       - (sell_value + buy_value)
            /\ fn.args = <<10000, 100, 10000, 110>> => fn.result[1] = 97900000

C11_Witness ==
    /\ fn.name = "calculate_profit_loss"
    /\ fn.args = <<10000, 100, 10000, 110>>
    /\ fn.result = <<97900000>>


(***************************************************************************)
(* MarketDataService.get_market_snapshot                                   *)
(* (src/src/services/market_data.py)                                       *)
(*                                                                         *)
(* The coroutine is cut at asyncio.sleep; one run of the loop body, with   *)
(* the fetches it awaits, is one step.  A fetch is an optional value: it   *)
(* is empty when the request raises.  Of the snapshot only the two fields  *)
(* the validation reads, price and volume, are kept.  Delays are seconds.  *)
(***************************************************************************)
MaxRetries == 3         \* largest max_retries a caller passes

RetryDelays == {2}
FetchedPrices == {-1, 0, 40}
FetchedVolumes == {-5, 0, 1000}
Fetches(values) == {None} \cup {Some(v) : v \in values}

\* A faulty variant: a failed attempt is followed by another one, whatever
\* its index.
is_last_attempt_never(attempt, max_retries) == FALSE

\* if attempt < max_retries - 1: ... else: raise
is_last_attempt(attempt, max_retries) == ~(attempt < max_retries - 1)

\* The body of the try block: the price is fetched when last_price is None,
\* the 24h volume when the attribute is missing or 0; a request on a missing
\* client raises.  snapshot is empty when the body raised.
compose_snapshot(price_before, volume_before, cl, price_fetch, volume_fetch) ==
    LET price_raises == price_before = None /\ (cl = None \/ price_fetch = None)
        price == IF price_before = None /\ ~price_raises THEN price_fetch
                 ELSE price_before
        volume_asked == ~price_raises
                        /\ (volume_before = None \/ volume_before[1] = 0)
        volume_raises == volume_asked /\ (cl = None \/ volume_fetch = None)
        volume == IF volume_asked /\ ~volume_raises THEN volume_fetch
                  ELSE volume_before
        invalid == \/ price = None
                   \/ price[1] = 0
                   \/ volume = None
                   \/ volume[1] = 0
    IN  [last_price |-> price, volume_24h |-> volume,
         snapshot |-> IF price_raises \/ volume_raises \/ invalid THEN None
                      ELSE Some([price |-> price[1], volume |-> volume[1]])]

\* get_market_snapshot is called: with max_retries = 0 the loop body never
\* runs and the function returns None.
GetMarketSnapshot ==
    /\ snapshot_call.pc \in {"idle", "returned", "raised"}
    /\ \E max_retries \in 0..MaxRetries, retry_delay \in RetryDelays :
          snapshot_call' =
              SnapshotCall(IF max_retries = 0 THEN "returned" ELSE "attempt",
                           max_retries, retry_delay, 0, 0, <<>>, None)
    /\ UNCHANGED <<state_vars, fn, cycle, calls, market_vars, volume_24h,
                   client, socket_tasks, sockets, stop_call, monitor, reports, indicator_vars, engine>>

\* One run of the loop body: it returns the snapshot, or its exception is
\* caught and the coroutine sleeps, or, on the last index, raises.
ComposeSnapshot ==
    /\ snapshot_call.pc = "attempt"
    /\ \E price_fetch \in Fetches(FetchedPrices),
          volume_fetch \in Fetches(FetchedVolumes) :
          LET c == compose_snapshot(last_price, volume_24h, client,
                                    price_fetch, volume_fetch)
              call == [snapshot_call EXCEPT !.attempts = @ + 1]
          IN  /\ last_price' = c.last_price
              /\ volume_24h' = c.volume_24h
              /\ snapshot_call' =
                    IF c.snapshot # None
                    THEN [call EXCEPT !.pc = "returned", !.result = c.snapshot]
                    ELSE IF is_last_attempt(call.attempt, call.max_retries)
                    THEN [call EXCEPT !.pc = "raised"]
                    ELSE [call EXCEPT !.pc = "sleep",
                                      !.delays = Append(@, call.retry_delay)]
    /\ UNCHANGED <<state_vars, fn, cycle, calls, order_book, candles,
                   current_candle, candle_task, now, client, socket_tasks,
                   sockets, stop_call, monitor, reports, indicator_vars, engine>>

\* asyncio.sleep(retry_delay) ends: the loop goes on to the next index.
SleepEnds ==
    /\ snapshot_call.pc = "sleep"
    /\ snapshot_call' = [snapshot_call EXCEPT !.pc = "attempt",
                                              !.attempt = @ + 1]
    /\ UNCHANGED <<state_vars, fn, cycle, calls, market_vars, volume_24h,
                   client, socket_tasks, sockets, stop_call, monitor, reports, indicator_vars, engine>>

NextSnapshot ==
    Start \/ Ticker \/ GetMarketSnapshot \/ ComposeSnapshot \/ SleepEnds

SpecSnapshot == Init /\ [][NextSnapshot]_vars

\* The event loop resumes the coroutine when the requests it awaits settle
\* and when its sleep timer fires.
SpecSnapshotFair ==
    SpecSnapshot /\ WF_vars(ComposeSnapshot) /\ WF_vars(SleepEnds)

SnapshotDone == snapshot_call.pc \in {"returned", "raised"}

\* The bounds of a call with max_retries >= 1: at most max_retries loop
\* bodies run, each but the first after one sleep of retry_delay; the call
\* returns with the first valid snapshot and raises only when max_retries
\* bodies failed, without a sleep after the last one.
SnapshotCallBounded ==
    snapshot_call.max_retries >= 1 =>
        /\ snapshot_call.attempts <= snapshot_call.max_retries
        /\ \A k \in 1..Len(snapshot_call.delays) :
              snapshot_call.delays[k] = snapshot_call.retry_delay
        /\ snapshot_call.pc \in {"attempt", "sleep"} =>
              snapshot_call.attempt < snapshot_call.max_retries
        /\ snapshot_call.pc = "attempt" =>
              /\ snapshot_call.attempts = snapshot_call.attempt
              /\ Len(snapshot_call.delays) = snapshot_call.attempts
        /\ snapshot_call.pc = "sleep" =>
              /\ snapshot_call.attempts = snapshot_call.attempt + 1
              /\ Len(snapshot_call.delays) = snapshot_call.attempts
              /\ snapshot_call.attempts < snapshot_call.max_retries
        /\ snapshot_call.pc = "returned" =>
              /\ snapshot_call.result # None
              /\ snapshot_call.attempts >= 1
              /\ Len(snapshot_call.delays) = snapshot_call.attempts - 1
        /\ snapshot_call.pc = "raised" =>
              /\ snapshot_call.result = None
              /\ snapshot_call.attempts = snapshot_call.max_retries
              /\ Len(snapshot_call.delays) = snapshot_call.max_retries - 1

\* C21: a call of get_market_snapshot with max_retries >= 1 ends after at
\* most max_retries attempts, with the fixed delay between two attempts and
\* none after the last: it returns at the first valid snapshot and raises
\* when every attempt failed.
C21_SnapshotRetriesBounded ==
    /\ []SnapshotCallBounded
    /\ (snapshot_call.pc = "attempt") ~> SnapshotDone

C21_Witness ==
    /\ snapshot_call.pc = "raised"
    /\ snapshot_call.max_retries = MaxRetries
    /\ snapshot_call.attempts = MaxRetries
    /\ Len(snapshot_call.delays) = MaxRetries - 1


\* C22: every snapshot get_market_snapshot returns has price > 0 and
\* volume > 0; one with a missing, zero or negative price or volume is never
\* returned.
C22_ReturnedSnapshotPositive ==
    (snapshot_call.pc = "returned" /\ snapshot_call.result # None) =>
        /\ snapshot_call.result[1].price > 0
        /\ snapshot_call.result[1].volume > 0


(***************************************************************************)
(* MarketDataService.stop and the tasks it cancels                         *)
(* (src/src/services/market_data.py)                                       *)
(*                                                                         *)
(* Every task of the service is suspended in an await (recv or sleep)      *)
(* whenever another coroutine runs: the handlers await nothing that        *)
(* suspends.  task.cancel() makes the task's next step raise               *)
(* CancelledError at that await; _handle_socket catches Exception only,    *)
(* and _candle_manager catches CancelledError and returns, so a cancelled  *)
(* task runs no handler code.                                              *)
(***************************************************************************)
MaxStops == 2           \* calls of stop()

DepthFrames == {[b |-> <<<<40, 2>>>>, a |-> <<<<41, 0>>, <<42, 1>>>>]}

\* for level in levels: self.order_book.update(side, price, quantity)
RECURSIVE update_levels(_, _, _, _)
update_levels(ob, side, levels, minute_passed) ==
    IF levels = <<>> THEN ob
    ELSE update_levels(update(ob, side, levels[1][1], levels[1][2],
                              minute_passed),
                       side, Tail(levels), FALSE)

\* _handle_depth on a depthUpdate frame: the bids, then the asks.
handle_depth(ob, msg, minute_passed) ==
    update_levels(update_levels(ob, "BUY", msg.b, minute_passed),
                  "SELL", msg.a, FALSE)

\* The depth socket task receives a frame and handles it.
Depth ==
    /\ sockets["_handle_depth"] = "connected"
    /\ \E msg \in DepthFrames, minute_passed \in BOOLEAN :
          LET ob == handle_depth(order_book, msg, minute_passed)
          IN  /\ \A p \in DOMAIN ob.cancel_counts :
                    ob.cancel_counts[p] <= MaxCancels
              /\ order_book' = ob
    /\ UNCHANGED <<state_vars, fn, cycle, calls, service_vars, candles,
                   current_candle, last_price, candle_task, now, monitor, reports, indicator_vars, engine>>

\* A faulty variant: cancel() leaves the task as it is.
cancel_ignored(status) == status

\* task.cancel() on a task by its status: a task that is suspended in its
\* loop is cancelled, one that has ended stays as it is.
cancel(status) ==
    IF status \in {"connected", "align", "interval"} THEN "cancelled"
    ELSE status

in_list(tasks, name) == \E k \in 1..Len(tasks) : tasks[k] = name

\* stop() is called and runs up to its await: every task of the list is
\* cancelled and the list is cleared; with a client it is suspended in
\* close_connection(), without one it returns.
Stop ==
    /\ stop_call.pc # "closing"
    /\ stop_call.calls < MaxStops
    /\ sockets' = [h \in Handlers |->
                     IF in_list(socket_tasks, h) THEN cancel(sockets[h])
                     ELSE sockets[h]]
    /\ candle_task' = IF in_list(socket_tasks, "_candle_manager")
                      THEN [candle_task EXCEPT !.pc = cancel(@)]
                      ELSE candle_task
    /\ socket_tasks' = <<>>
    /\ stop_call' = StopCall(IF client # None THEN "closing" ELSE "returned",
                             stop_call.calls + 1)
    /\ UNCHANGED <<state_vars, fn, cycle, calls, order_book, candles,
                   current_candle, last_price, now, volume_24h, client,
                   snapshot_call, monitor, reports, indicator_vars, engine>>

\* close_connection() returns: the client is forgotten and stop() returns.
CloseConnectionReturns ==
    /\ stop_call.pc = "closing"
    /\ client' = None
    /\ stop_call' = [stop_call EXCEPT !.pc = "returned"]
    /\ UNCHANGED <<state_vars, fn, cycle, calls, market_vars, volume_24h,
                   socket_tasks, sockets, snapshot_call, monitor, reports, indicator_vars, engine>>

\* close_connection() raises: stop() raises and the client stays.
CloseConnectionRaises ==
    /\ stop_call.pc = "closing"
    /\ stop_call' = [stop_call EXCEPT !.pc = "raised"]
    /\ UNCHANGED <<state_vars, fn, cycle, calls, market_vars, volume_24h,
                   client, socket_tasks, sockets, snapshot_call, monitor, reports, indicator_vars, engine>>

NextService ==
    \/ Start
    \/ Tick
    \/ Ticker
    \/ TradeEvent
    \/ Depth
    \/ WakeAlign
    \/ WakeInterval
    \/ Stop
    \/ CloseConnectionReturns
    \/ CloseConnectionRaises

SpecService == Init /\ [][NextService]_vars

NoTaskRunning ==
    /\ \A h \in Handlers : sockets[h] # "connected"
    /\ candle_task.pc \notin {"align", "interval"}

\* The client is closed only with every task cancelled, and once stop() has
\* returned the task list is empty and the client is null.
StoppedInOrder ==
    /\ stop_call.pc \in {"closing", "returned", "raised"} => NoTaskRunning
    /\ client = None => NoTaskRunning
    /\ stop_call.pc = "returned" => (socket_tasks = <<>> /\ client = None)

\* From the cancellation on nothing but another start() changes the market
\* state.
QuietAfterStop ==
    (stop_call.pc \in {"closing", "returned", "raised"}
        /\ socket_tasks' = <<>>)
    => UNCHANGED <<order_book, candles, current_candle, last_price>>

\* A call of stop() after stop() has returned changes nothing.
SecondStopNoOp ==
    (stop_call.pc = "returned" /\ stop_call'.calls > stop_call.calls)
    => /\ stop_call'.pc = "returned"
       /\ UNCHANGED <<market_vars, volume_24h, client, socket_tasks, sockets>>

\* C23: stop() cancels every socket task and the candle manager before it
\* closes the client; afterwards the task list is empty and the client is
\* null, the tasks no longer change the market state, and a second stop()
\* changes nothing.
C23_StopCancelsThenCloses ==
    /\ []StoppedInOrder
    /\ [][QuietAfterStop]_vars
    /\ [][SecondStopNoOp]_vars

C23_Witness ==
    /\ stop_call = StopCall("returned", 2)
    /\ candle_task.pc = "cancelled"
    /\ \A h \in Handlers : sockets[h] = "cancelled"
    /\ current_candle # None
    /\ now > candle_task.wake


(***************************************************************************)
(* Socket consumers and the loss of a connection                           *)
(* (src/binance_monitor.py, src/src/services/market_data.py)               *)
(*                                                                         *)
(* binance_monitor.main consumes the user data socket; the three           *)
(* _handle_socket tasks of MarketDataService consume the market-data       *)
(* sockets.  Waits are seconds.  A KeyboardInterrupt, which ends main at   *)
(* any point, is left out.                                                 *)
(***************************************************************************)
max_reconnects == 5

\* The except block of main: the manager is stopped and dropped; below the
\* cap the counter is raised and main sleeps 2 ** reconnect_count seconds,
\* at the cap main leaves the loop.
connection_error(m) ==
    IF m.reconnect_count < max_reconnects
    THEN Main("backoff", FALSE, m.reconnect_count + 1,
              2 ^ (m.reconnect_count + 1))
    ELSE Main("exited", FALSE, m.reconnect_count, m.wait_time)

\* main() is called.
MonitorMain ==
    /\ monitor.pc = "idle"
    /\ monitor' = Main("connecting", FALSE, 0, 0)
    /\ UNCHANGED <<state_vars, fn, cycle, calls, market_vars, service_vars, reports, indicator_vars, engine>>

\* The top of the outer loop: without internet main sleeps 5 seconds; else
\* the manager is created if there is none and the user socket is started,
\* which resets the counter, unless one of the two raises.
Connect ==
    /\ monitor.pc = "connecting"
    /\ \E outcome \in {"no_internet", "start_raises", "socket_raises",
                       "connected"} :
          monitor' =
              CASE outcome = "no_internet" ->
                       [monitor EXCEPT !.pc = "no_network"]
                [] outcome = "start_raises" -> connection_error(monitor)
                [] outcome = "socket_raises" -> connection_error(monitor)
                [] outcome = "connected" ->
                       Main("monitoring", TRUE, 0, monitor.wait_time)
    /\ UNCHANGED <<state_vars, fn, cycle, calls, market_vars, service_vars, reports, indicator_vars, engine>>

\* time.sleep(5) ends: continue.
NetworkWaitEnds ==
    /\ monitor.pc = "no_network"
    /\ monitor' = [monitor EXCEPT !.pc = "connecting"]
    /\ UNCHANGED <<state_vars, fn, cycle, calls, market_vars, service_vars, reports, indicator_vars, engine>>

\* The inner loop finds the manager dead: "WebSocket connection lost".
ConnectionLost ==
    /\ monitor.pc = "monitoring"
    /\ monitor' = connection_error(monitor)
    /\ UNCHANGED <<state_vars, fn, cycle, calls, market_vars, service_vars, reports, indicator_vars, engine>>

\* time.sleep(wait_time) ends: the outer loop starts over.
BackoffEnds ==
    /\ monitor.pc = "backoff"
    /\ monitor' = [monitor EXCEPT !.pc = "connecting"]
    /\ UNCHANGED <<state_vars, fn, cycle, calls, market_vars, service_vars, reports, indicator_vars, engine>>

\* _handle_socket: recv() raises on a market-data socket; the exception is
\* logged, the loop is left and the task ends.
SocketError ==
    \E h \in Handlers :
        /\ sockets[h] = "connected"
        /\ sockets' = [sockets EXCEPT ![h] = "disconnected"]
        /\ UNCHANGED <<state_vars, fn, cycle, calls, market_vars, volume_24h,
                       client, socket_tasks, stop_call, snapshot_call, monitor, reports, indicator_vars, engine>>

NextSockets ==
    \/ MonitorMain
    \/ Connect
    \/ NetworkWaitEnds
    \/ ConnectionLost
    \/ BackoffEnds
    \/ Start
    \/ Ticker
    \/ SocketError

SpecSockets == Init /\ [][NextSockets]_vars

\* The policy as main follows it: the n-th consecutive attempt is preceded
\* by a wait of 2^n seconds, n is at most 5, a connection resets the
\* counter, and main exits only at the cap.
MonitorReconnects ==
    /\ monitor.reconnect_count \in 0..max_reconnects
    /\ monitor.pc = "backoff" =>
          /\ monitor.reconnect_count >= 1
          /\ monitor.wait_time = 2 ^ monitor.reconnect_count
    /\ monitor.pc = "monitoring" => monitor.reconnect_count = 0
    /\ monitor.pc = "exited" => monitor.reconnect_count = max_reconnects

\* C24: a consumer that lost its socket connection reconnects with
\* exponential backoff (2^n seconds before the n-th consecutive attempt, at
\* most 5 attempts, counter reset by a connection) and ends with a fatal
\* error past the cap: it is never left ended without having done so.
C24_ReconnectsWithBackoff ==
    /\ MonitorReconnects
    /\ \A h \in Handlers : sockets[h] # "disconnected"


(***************************************************************************)
(* _calculate_position_size called on its own                              *)
(* (src/src/core/trading_engine.py)                                        *)
(*                                                                         *)
(* Balances are in 1/10000 USDC and prices whole USDC, chosen so that the  *)
(* two quotients are exact; the rounding of a Decimal quotient at its 28th *)
(* digit is not represented.                                               *)
(***************************************************************************)
SizingBalances == {200000 * k : k \in 1..10}
SizingPrices == {1, 2, 4, 5, 8, 10, 20, 25, 40, 50}

CalculatePositionSize ==
    /\ \E state_manager \in StateManagers, balance \in SizingBalances,
          current_price \in SizingPrices :
          fn' = Eval("calculate_position_size",
                     <<state_manager, balance, current_price>>,
                     calculate_position_size(state_manager, config(7000),
                                             balance, current_price))
    /\ UNCHANGED <<state_vars, cycle, calls, market_vars, service_vars,
                   monitor, reports, indicator_vars, engine>>

NextSizing == CalculatePositionSize

SpecSizing == Init /\ [][NextSizing]_vars

\* C25: for every positive price and balance position sizing returns
\* quantity = min(balance * risk_per_trade / price, max_position_size /
\* price), so quantity * price exceeds neither max_position_size nor
\* balance * risk_per_trade.  (risk_per_trade is in tenths.)
C25_PositionSizeCapped ==
    fn.name = "calculate_position_size" =>
        LET cfg == config(7000)
            balance == fn.args[2]
            price == fn.args[3]
            risk_amount == (balance * cfg.risk_per_trade) \div 10
        IN  /\ fn.result.error = ""
            /\ fn.result.quantity = min(risk_amount \div price,
                                        cfg.max_position_size \div price)
            /\ fn.result.quantity * price <= cfg.max_position_size
            /\ fn.result.quantity * price <= risk_amount

\* The same with the balance handed over as a number, as by the state
\* manager of the test.
PositionSizeCappedGivenBalance ==
    (fn.name = "calculate_position_size" /\ fn.args[1] = "MockStateManager")
        => C25_PositionSizeCapped


(***************************************************************************)
(* _generate_trading_signal called on its own                              *)
(* (src/src/core/trading_engine.py)                                        *)
(*                                                                         *)
(* The conditions span the documented ranges and their ends: sentiment in  *)
(* [-1, 1], fear/greed in [0, 100], correlations inside and outside        *)
(* [-1, 1], and zero to four bullish technical signals.  Sub-scores are in *)
(* 1/1000, the confidence in 1/10000.                                      *)
(***************************************************************************)
SignalMinConfidences == {0, 7000}

Technicals ==
    {[ma_signal |-> ma, rsi |-> rsi, macd |-> macd] :
        ma \in {-1, 1}, rsi \in {20, 30, 70, 80}, macd \in {-1, 1}}

SignalConditions ==
    {MarketCondition(40, c, s, t, t.macd, fg) :
        c \in {-2000, -1000, -500, 0, 800, 1500},
        s \in {-1000, -500, 0, 500, 1000},
        t \in Technicals, fg \in {0, 50, 100}}

\* One evaluation, on a freshly built engine.
GenerateTradingSignal ==
    /\ fn.name = ""
    /\ \E state \in TradingState, state_manager \in StateManagers,
          min_confidence \in SignalMinConfidences,
          condition \in SignalConditions :
          fn' = Eval("generate_trading_signal",
                     <<state, state_manager, min_confidence>>,
                     [technical |-> analyze_technical_signals(condition),
                      sentiment |-> analyze_sentiment_signals(condition),
                      correlation |-> analyze_correlation_signals(condition),
                      signal |-> generate_trading_signal(
                                     state, state_manager,
                                     config(min_confidence), 1000000,
                                     condition).signal])
    /\ UNCHANGED <<state_vars, cycle, calls, market_vars, service_vars,
                   monitor, reports, indicator_vars, engine>>

NextSignal == GenerateTradingSignal

SpecSignal == Init /\ [][NextSignal]_vars

\* C26: each of the three sub-scores lies in [0, 1] for inputs in the
\* documented ranges, and every emitted TradingSignal has a confidence in
\* [0, 1] and the action BUY or SELL.
C26_ConfidenceInUnitInterval ==
    fn.name = "generate_trading_signal" =>
        /\ 0 <= fn.result.technical /\ fn.result.technical <= 1000
        /\ 0 <= fn.result.sentiment /\ fn.result.sentiment <= 1000
        /\ 0 <= fn.result.correlation /\ fn.result.correlation <= 1000
        /\ fn.result.signal # None =>
              /\ 0 <= fn.result.signal[1].confidence
              /\ fn.result.signal[1].confidence <= 10000
              /\ fn.result.signal[1].action \in {"BUY", "SELL"}

C26_Witness ==
    /\ fn.name = "generate_trading_signal"
    /\ fn.result.technical = 1000
    /\ fn.result.sentiment = 1000
    /\ fn.result.correlation = 1000
    /\ fn.result.signal # None
    /\ fn.result.signal[1].confidence = 10000
    /\ fn.result.signal[1].action = "SELL"


(***************************************************************************)
(* _execute_signal called on its own, and the BUY path of a decision cycle *)
(* (src/src/core/trading_engine.py)                                        *)
(***************************************************************************)
ExecBalances == {0, 80000, 100000, 200000, 400000, 2000000}

ExecSignals ==
    {TradingSignal("BUY", 9000, 40, quantity) :
        quantity \in {2500, 10000, 25000}}

\* _execute_signal(signal) with a BUY signal handed over by the caller, and
\* an exchange that takes every order.
ExecuteSignal ==
    /\ Len(exchange) < MaxOrders
    /\ \E state_manager \in StateManagers, signal \in ExecSignals,
          balance \in ExecBalances :
          LET e == execute_signal(SM, exchange, state_manager, signal,
                                  balance, TRUE)
          IN  /\ Set(e.sm)
              /\ exchange' = e.exchange
              /\ cycle' = Outcome(current_state, Some(e.signal), e.placed, "")
    /\ UNCHANGED <<last, fn, calls, market_vars, service_vars, monitor, reports, indicator_vars, engine>>

NextExecute == ExecuteSignal \/ TransitionCall

SpecExecute == Init /\ [][NextExecute]_vars

\* C29: a BUY signal whose price * quantity exceeds the available balance
\* is placed with the quantity (0.5 * balance) / price when 0.5 * balance is
\* at least the minimum order value of 5, and not placed at all otherwise;
\* the order placed costs no more than the balance.
C29_BuyDownsizedToHalfBalance ==
    \A state_manager \in StateManagers, signal \in ExecSignals,
       balance \in ExecBalances :
        (/\ current_state = READY_TO_BUY
         /\ signal.action = "BUY"
         /\ signal.price * signal.quantity > balance)
            => LET e == execute_signal(SM, exchange, state_manager, signal,
                                       balance, TRUE)
               IN  IF balance \div 2 >= min_order_value
                   THEN /\ e.placed = "BUY"
                        /\ Len(e.exchange) = Len(exchange) + 1
                        /\ e.exchange[Len(e.exchange)].quantity =
                               (balance \div 2) \div signal.price
                        /\ e.exchange[Len(e.exchange)].quantity * signal.price
                               <= balance
                   ELSE /\ e.placed = ""
                        /\ e.exchange = exchange

\* What the balance check by itself does with such a signal: the quantity
\* of the signal is reduced, or the signal is dropped, and no order is
\* placed either way.
QuantityReducedButNoOrder ==
    \A signal \in ExecSignals, balance \in ExecBalances :
        (signal.action = "BUY" /\ signal.price * signal.quantity > balance)
            => LET e == execute_signal(SM, exchange, "StateManager", signal,
                                       balance, TRUE)
               IN  /\ e.placed = ""
                   /\ e.exchange = exchange
                   /\ e.signal.quantity =
                          IF balance \div 2 >= min_order_value
                          THEN (balance \div 2) \div signal.price
                          ELSE signal.quantity

\* C30: a decision cycle in READY_TO_BUY with total_confidence >=
\* min_confidence and a sufficient balance submits a BUY order through
\* place_buy_order and ends in BUYING with a new OPEN trade in the ledger.
C30_BuyIntentExecuted ==
    \A state_manager \in StateManagers, min_confidence \in MinConfidences,
       balance \in EngineBalances, condition \in MarketConditions :
        (/\ current_state = READY_TO_BUY
         /\ Len(exchange) < MaxOrders
         /\ total_confidence(config(min_confidence), condition)
                >= min_confidence)
            => LET r == trading_loop(SM, exchange, state_manager,
                                     config(min_confidence), balance,
                                     condition, TRUE)
               IN  /\ r.outcome.placed = "BUY"
                   /\ Len(r.exchange) = Len(exchange) + 1
                   /\ r.sm.current_state = BUYING
                   /\ Len(r.sm.trades) = Len(trades) + 1
                   /\ r.sm.trades[Len(r.sm.trades)].status = "OPEN"

(***************************************************************************)
(* The ledger of trades                                                    *)
(***************************************************************************)
OpenTrades == {i \in 1..Len(trades) : trades[i].status = "OPEN"}

\* C35: in every reachable state the ledger holds at most one OPEN trade, and
\* none while the state is READY_TO_BUY (a BUY order that ends CANCELED,
\* REJECTED or EXPIRED leaves no OPEN trade behind).
C35_AtMostOneOpenTrade ==
    /\ Cardinality(OpenTrades) <= 1
    /\ current_state = READY_TO_BUY => OpenTrades = {}

\* A trade is CLOSED iff it has a sell leg iff its profit_loss is set.
LedgerConsistent ==
    \A i \in 1..Len(trades) :
        /\ trades[i].status \in {"OPEN", "CLOSED"}
        /\ trades[i].status = "CLOSED" <=> trades[i].sell_order # None
        /\ trades[i].sell_order # None <=> trades[i].profit_loss # None

\* A step keeps every trade at its place with its buy leg, keeps every
\* CLOSED trade as it is, and at most appends to the ledger.
LedgerGrowsOnly ==
    /\ Len(trades') >= Len(trades)
    /\ \A i \in 1..Len(trades) :
          /\ trades'[i].buy_order = trades[i].buy_order
          /\ trades[i].status = "CLOSED" => trades'[i] = trades[i]

\* C36: in every reachable state a trade is CLOSED iff it has a sell leg iff
\* its profit_loss is non-null; a CLOSED trade is never modified again, and
\* trades are never removed or reordered.
C36_LedgerConsistent == []LedgerConsistent /\ [][LedgerGrowsOnly]_vars

\* Two round trips: both trades CLOSED, the second closed by the last update.
C36_Witness ==
    /\ Len(trades) = 2
    /\ trades[1].status = "CLOSED"
    /\ trades[2].status = "CLOSED"
    /\ trades[1].sell_order # trades[2].sell_order
    /\ last.op = "handle_order_update"
    /\ last.status = "FILLED"

\* C37: the trade a SELL fill closes is the one whose buy leg is the BUY
\* order whose fill created the Position being sold.
C37_SellClosesOwnBuy ==
    [][(/\ last'.op = "handle_order_update"
        /\ last'.result = "applied"
        /\ last'.status = "FILLED"
        /\ current_state = SELLING)
          => /\ \E i \in 1..Len(trades) : trades'[i] # trades[i]
             /\ \A i \in 1..Len(trades) :
                   trades'[i] # trades[i]
                       => /\ trades'[i].status = "CLOSED"
                          /\ trades[i].buy_order # None
                          /\ trades[i].buy_order[1].id = position_order]_vars

(***************************************************************************)
(* Order placement and the exchange's order reports                        *)
(*                                                                         *)
(* place_buy_order and place_sell_order are coroutines that suspend in     *)
(* create_order; the exchange sends one terminal report (FILLED, CANCELED, *)
(* REJECTED or EXPIRED) for every order it accepted, at any time after it  *)
(* accepted the order, and handle_order_update runs on that report.        *)
(***************************************************************************)
\* place_sell_order is called: it raises ValueError without a position, and
\* otherwise sends the order and suspends in create_order.
StartSell(i) ==
    /\ calls[i].pc = "idle"
    /\ \E price \in SellPrices, quantity \in SellQuantities :
          IF ~has_position(current_position)
          THEN /\ calls' = [calls EXCEPT ![i] =
                      Coroutine("failed", current_state, FALSE, price,
                                quantize(quantity), 0)]
               /\ last' = Call("place_sell_order", "ValueError", 0, "")
          ELSE /\ calls' = [calls EXCEPT ![i] =
                      Coroutine("create_sell", current_state, FALSE, price,
                                quantize(quantity), 0)]
               /\ UNCHANGED last
    /\ UNCHANGED <<current_state, current_position, active_order, trades,
                   exchange, position_order, fn, cycle, market_vars, service_vars,
                   monitor, reports, indicator_vars, engine>>

\* The exchange accepts the SELL order; the coroutine has not resumed yet.
SellOrderAccepted(i) ==
    /\ calls[i].pc = "create_sell"
    /\ Len(exchange) < MaxOrders
    /\ exchange' = create_order(exchange, "SELL", calls[i].quantity, calls[i].price)
    /\ calls' = [calls EXCEPT ![i].pc = "accepted_sell", ![i].order = Len(exchange) + 1]
    /\ UNCHANGED <<current_state, current_position, active_order, trades,
                   position_order, last, fn, cycle, market_vars, service_vars,
                   monitor, reports, indicator_vars, engine>>

\* create_order raises: the call logs and raises.
SellOrderRaises(i) ==
    /\ calls[i].pc = "create_sell"
    /\ calls' = [calls EXCEPT ![i].pc = "failed"]
    /\ last' = Call("place_sell_order", "ExchangeError", 0, "")
    /\ UNCHANGED <<current_state, current_position, active_order, trades,
                   exchange, position_order, fn, cycle, market_vars, service_vars,
                   monitor, reports, indicator_vars, engine>>

\* create_order returns: the call calls transition(SELLING, sell_order) and
\* returns.
ResumeSell(i) ==
    /\ calls[i].pc = "accepted_sell"
    /\ LET sell_order == Order(calls[i].order, "SELL", calls[i].quantity,
                               calls[i].price, "NEW")
       IN  Set(transition(SM, SELLING, Some(sell_order)).sm)
    /\ calls' = [calls EXCEPT ![i].pc = "done"]
    /\ last' = Call("place_sell_order", "ok", 0, "")
    /\ UNCHANGED <<exchange, fn, cycle, market_vars, service_vars, monitor, reports, indicator_vars, engine>>

TerminalStatuses == {"FILLED"} \cup FailedStatuses

\* The report (orderId, status) as the update handle_order_update receives.
report_update(ex, id, status) ==
    [orderId |-> id, status |-> status,
     price |-> IF status = "FILLED" THEN Some(ex[id].price) ELSE None]

\* The exchange sends the terminal report of an order it has accepted, and
\* handle_order_update runs on it.
OrderReport ==
    \E id \in 1..Len(exchange), status \in TerminalStatuses :
        /\ \A r \in reports : r.orderId # id
        /\ reports' = reports \cup {[orderId |-> id, status |-> status]}
        /\ LET sm == handle_order_update(SM, report_update(exchange, id, status))
           IN  /\ Set(sm)
               /\ last' = IF sm = SM
                          THEN Call("handle_order_update", "ignored", 0, "")
                          ELSE Call("handle_order_update", "applied", id, status)
        /\ UNCHANGED <<exchange, fn, cycle, calls, market_vars, service_vars, monitor,
                       indicator_vars, engine>>

NextPlacement ==
    \/ \E i \in Calls : StartBuy(i)
    \/ \E i \in Calls : BalanceReturns(i)
    \/ \E i \in Calls : CreateOrderAccepted(i)
    \/ \E i \in Calls : CreateOrderRaises(i)
    \/ \E i \in Calls : ResumeBuy(i)
    \/ \E i \in Calls : StartSell(i)
    \/ \E i \in Calls : SellOrderAccepted(i)
    \/ \E i \in Calls : SellOrderRaises(i)
    \/ \E i \in Calls : ResumeSell(i)
    \/ OrderReport

SpecPlacement == Init /\ [][NextPlacement]_vars

\* A suspended create_order call returns or raises, and every accepted order
\* receives its terminal report.
SpecPlacementFair ==
    /\ SpecPlacement
    /\ \A i \in Calls : WF_vars(ResumeBuy(i))
    /\ \A i \in Calls : WF_vars(ResumeSell(i))
    /\ WF_vars(OrderReport)

\* The placement of call i has returned, FILLED for its order has been
\* reported, and the machine still waits for that order.
FillLost(i) ==
    /\ calls[i].pc = "done"
    /\ [orderId |-> calls[i].order, status |-> "FILLED"] \in reports
    /\ current_state \in {BUYING, SELLING}
    /\ active_order # None
    /\ active_order[1].id = calls[i].order

\* C39: a FILLED report delivered at any point after the exchange accepted
\* the order, including while the placing call is still suspended in
\* create_order, is never lost: once the call has returned the machine is in
\* the post-fill state, not in BUYING / SELLING waiting for that order.
C39_FillNotLost == \A i \in Calls : ~FillLost(i)

\* The state managers one intent (a placement the exchange accepts, with a
\* balance that covers it) or one order event (a terminal update for the
\* active order) leads to, each with the exchange afterwards.
successors(sm, ex) ==
    {[sm |-> r.sm, exchange |-> r.exchange] :
        r \in {place_buy_order(sm, ex, price, quantity,
                               [ok |-> TRUE, free |-> 200000],
                               price * quantity * SubUnits, TRUE) :
                 price \in BuyPrices, quantity \in BuyQuantities}
              \cup {place_sell_order(sm, ex, price, quantity, TRUE) :
                      price \in SellPrices, quantity \in SellQuantities}}
      \cup {[sm |-> handle_order_update(sm,
                        [orderId |-> sm.active_order[1].id, status |-> status,
                         price |-> Some(sm.active_order[1].price)]),
             exchange |-> ex] :
              status \in IF sm.active_order = None THEN {} ELSE TerminalStatuses}

\* Some intent or order event takes a transition of the table.
TransitionEnabled ==
    \E r \in successors(SM, exchange) :
        /\ r.sm.current_state # current_state
        /\ is_valid_transition(current_state, r.sm.current_state)

\* READY_TO_BUY is reached from sm by at most n intents and order events.
RECURSIVE can_return(_, _, _)
can_return(sm, ex, n) ==
    \/ sm.current_state = READY_TO_BUY
    \/ /\ n > 0
       /\ \E r \in successors(sm, ex) : can_return(r.sm, r.exchange, n - 1)

ReturnDepth == 2

CanReturnToReadyToBuy == can_return(SM, exchange, ReturnDepth)

WaitingForOrder == current_state \in {BUYING, SELLING}

\* C38: in every reachable state some table transition is enabled by an
\* intent or an order event, READY_TO_BUY is reachable again from every
\* reachable state, and when every submitted order receives a terminal
\* status update the machine never remains in BUYING or SELLING forever.
C38_NoStuckState ==
    /\ []TransitionEnabled
    /\ []CanReturnToReadyToBuy
    /\ WaitingForOrder ~> ~WaitingForOrder

(***************************************************************************)
(* Sealed candles and the trade handler                                    *)
(***************************************************************************)
\* C34: once a candle has been appended to the history, no trade event
\* changes any of its fields, under every interleaving of the trade handler
\* with the sealing task; a trade event that arrives while no candle is open
\* changes neither the history nor any candle.
C34_SealedCandleImmutable ==
    [][TradeEvent => /\ candles' = candles
                     /\ current_candle = None => current_candle' = None]_vars

\* Trades were handled before and after a candle was sealed: the sealed
\* candle and the candle open now both hold trades.
C34_Witness ==
    /\ Len(candles) > 0
    /\ candles[Len(candles)].timestamp > 0
    /\ candles[Len(candles)].trades > 0
    /\ current_candle # None
    /\ current_candle[1].timestamp > candles[Len(candles)].timestamp
    /\ current_candle[1].trades > 0

(***************************************************************************)
(* _get_market_condition and the collaborators                             *)
(***************************************************************************)
\* What get_market_snapshot returns to the engine.
Snapshots ==
    [price : {40}, ma_signal : {-1, 1}, rsi : {20, 50}, macd_signal : {-1, 1},
     order_book_imbalance : {-1, 1}]

\* What the correlation and the sentiment collaborator hand to the engine:
\* None stands for no data (the {} that CorrelationAnalyzer returns when it
\* cannot compute, or None), Some for an object with the attributes the
\* engine reads.
CorrelationData == {None} \cup {Some([coefficient |-> c]) : c \in {-1200, 500, 800}}

SentimentData ==
    {None} \cup {Some([overall_sentiment |-> o, fear_greed_index |-> f]) :
                    o \in {-1000, 500}, f \in {20, 50}}

\* _get_market_condition: correlation.coefficient, sentiment.overall_sentiment
\* and sentiment.fear_greed_index are read without a check, which raises
\* AttributeError on a value without these attributes.
get_market_condition(snapshot, correlation, sentiment) ==
    IF correlation = None \/ sentiment = None
    THEN [error |-> "AttributeError", condition |-> None]
    ELSE [error |-> "",
          condition |-> Some(MarketCondition(
              snapshot.price, correlation[1].coefficient,
              sentiment[1].overall_sentiment,
              [ma_signal |-> snapshot.ma_signal, rsi |-> snapshot.rsi,
               macd |-> snapshot.macd_signal],
              snapshot.order_book_imbalance,
              sentiment[1].fear_greed_index))]

\* The first two steps of _trading_loop in a ready state: the market
\* condition, then the three sub-scores and their fusion; an exception of
\* the first step ends the cycle.
fuse(cfg, snapshot, correlation, sentiment) ==
    LET c == get_market_condition(snapshot, correlation, sentiment)
    IN  IF c.error # ""
        THEN [error |-> c.error, condition |-> None, sentiment |-> None,
              correlation |-> None, confidence |-> None]
        ELSE [error |-> "", condition |-> c.condition,
              sentiment |-> Some(analyze_sentiment_signals(c.condition[1])),
              correlation |-> Some(analyze_correlation_signals(c.condition[1])),
              confidence |-> Some(total_confidence(cfg, c.condition[1]))]

\* A decision cycle up to the fusion, on what the three services return.
GetMarketCondition ==
    /\ fn.name = ""
    /\ \E snapshot \in Snapshots, correlation \in CorrelationData,
          sentiment \in SentimentData, min_confidence \in MinConfidences :
          fn' = Eval("_trading_loop", <<snapshot, correlation, sentiment>>,
                     <<fuse(config(min_confidence), snapshot, correlation,
                            sentiment)>>)
    /\ UNCHANGED <<state_vars, cycle, calls, market_vars, service_vars, monitor, reports, indicator_vars, engine>>

NextCondition == GetMarketCondition

SpecCondition == Init /\ [][NextCondition]_vars

\* C31: when the sentiment or the correlation collaborator supplies no data
\* in a decision cycle, the cycle still completes instead of failing: the
\* market condition is built, the corresponding sub-score has its (neutral)
\* value and the fusion result is computed.
C31_NoDataDegradesToNeutral ==
    (fn.name = "_trading_loop" /\ (fn.args[2] = None \/ fn.args[3] = None))
        => /\ fn.result[1].error = ""
           /\ fn.result[1].condition # None
           /\ fn.result[1].correlation # None
           /\ fn.result[1].sentiment # None
           /\ fn.result[1].confidence # None

(***************************************************************************)
(* RSI and MACD                                                            *)
(*                                                                         *)
(* RSI is in whole points (rounded down), the MACD values in 1/468 of a    *)
(* price unit, 468 being the least common multiple of 12, 26 and 9.        *)
(***************************************************************************)
rsi_period == 14
macd_fast == 12
macd_slow == 26
macd_signal == 9

\* The sum of the gains (up TRUE) or of the losses over values[i..].
RECURSIVE changes(_, _, _)
changes(values, i, up) ==
    IF i > Len(values) THEN 0
    ELSE LET change == values[i] - values[i - 1]
         IN  (IF up /\ change >= 0 THEN change
              ELSE IF ~up /\ change < 0 THEN -change
              ELSE 0) + changes(values, i + 1, up)

\* calculate_rsi on the buffer values: the averages of gains and losses are
\* taken over the same number of changes, so rs is the quotient of the sums.
calculate_rsi(values) ==
    IF Len(values) < rsi_period THEN 50
    ELSE LET gains == changes(values, 2, TRUE)
             losses == changes(values, 2, FALSE)
         IN  IF losses = 0 THEN 100
             ELSE 100 - (100 * losses) \div (gains + losses)

\* sum(list(values)[-n:])
RECURSIVE sum_last(_, _)
sum_last(values, n) ==
    IF n = 0 \/ values = <<>> THEN 0
    ELSE values[Len(values)] + sum_last(SubSeq(values, 1, Len(values) - 1), n - 1)

\* calculate_macd on the buffer values.
calculate_macd(values) ==
    IF Len(values) < macd_slow
    THEN [macd |-> 0, signal |-> 0, histogram |-> 0]
    ELSE LET ema_fast == sum_last(values, macd_fast) * (468 \div macd_fast)
             ema_slow == sum_last(values, macd_slow) * (468 \div macd_slow)
             macd_line == ema_fast - ema_slow
             signal_line == sum_last(values, macd_signal) * (468 \div macd_signal)
         IN  [macd |-> macd_line, signal |-> signal_line,
              histogram |-> macd_line - signal_line]

\* calculate_macd_signal
calculate_macd_signal(values) ==
    LET histogram == calculate_macd(values).histogram
    IN  IF histogram > 0 THEN 1 ELSE IF histogram < 0 THEN -1 ELSE 0

\* The klines start() backfills: n candles whose closes rise by one, or
\* fall and rise in turn.
KlineCounts == {13, 14, 25, 26}

kline(k, rising) ==
    LET close == IF rising THEN 40 + k ELSE 40 + (k % 2)
    IN  Candle(0, close, close, close, close, 1, 1)

Klines == {[k \in 1..n |-> kline(k, rising)] : n \in KlineCounts, rising \in BOOLEAN}

\* start() when the exchange returns the klines of the last hours.
Backfill ==
    /\ candle_task.pc = "none"
    /\ \E fetched \in 0..4, price \in StartPrices, volume \in StartVolumes,
          history \in Klines :
          /\ last_price' = IF fetched >= 1 THEN Some(price) ELSE last_price
          /\ volume_24h' = IF fetched >= 2 THEN Some(volume) ELSE volume_24h
          /\ order_book' = IF fetched >= 3 THEN load_order_book(order_book)
                           ELSE order_book
          /\ candles' = IF fetched >= 4 THEN candles \o history ELSE candles
    /\ client' = Some("AsyncClient")
    /\ socket_tasks' = socket_tasks \o <<"_handle_ticker", "_handle_trades",
                                         "_handle_depth", "_candle_manager">>
    /\ sockets' = [h \in Handlers |-> "connected"]
    /\ candle_task' = Task("align", now + 1, 0)
    /\ stop_call' = StopCall("idle", stop_call.calls)
    /\ UNCHANGED <<state_vars, fn, cycle, calls, current_candle, now,
                   snapshot_call, monitor, reports, indicator_vars, engine>>

NextIndicators ==
    Backfill \/ Tick \/ Ticker \/ TradeEvent \/ WakeAlign \/ WakeInterval

SpecIndicators == Init /\ [][NextIndicators]_vars

\* The closes of the last n candles of the history.
closes(n) ==
    [k \in 1..n |-> candles[Len(candles) - n + k].close]

\* C33: RSI and MACD report their neutral defaults (RSI 50, MACD 0/0/0,
\* MACD-signal 0) only until enough candles exist: once at least 14 (RSI)
\* respectively 26 (MACD) candles have been sealed or backfilled, the
\* reported values are the ones computed from the candle closes.
C33_IndicatorsFromCandles ==
    /\ Len(candles) < rsi_period => calculate_rsi(rsi_values) = 50
    /\ Len(candles) < macd_slow =>
            /\ calculate_macd(macd_values) = [macd |-> 0, signal |-> 0, histogram |-> 0]
            /\ calculate_macd_signal(macd_values) = 0
    /\ Len(candles) >= rsi_period =>
            calculate_rsi(rsi_values) = calculate_rsi(closes(rsi_period))
    /\ Len(candles) >= macd_slow =>
            /\ calculate_macd(macd_values) = calculate_macd(closes(macd_slow))
            /\ calculate_macd_signal(macd_values)
                    = calculate_macd_signal(closes(macd_slow))

(***************************************************************************)
(* TradingEngine.start / stop: the decision loop                           *)
(***************************************************************************)
\* What can go wrong before the signal is generated: get_market_snapshot
\* raises after its retries, or a collaborator hands over a value without
\* the attributes read ("" for neither).
CycleFailures == {"", "SnapshotError", "AttributeError"}

\* The fused confidence of the first condition is 0.79, of the second 0.40.
LoopMinConfidences == {7000}

LoopConditions ==
    {MarketCondition(40, 800, s, [ma_signal |-> ma, rsi |-> 50, macd |-> 1],
                     1, 50) :
        <<s, ma>> \in {<<500, 1>>, <<-1000, -1>>}}

\* A faulty variant: an exception of the cycle ends the loop.
after_cycle_raises(error) == IF error # "" THEN "returned" ELSE "sleep1"

\* Where start() is after _trading_loop: an exception is caught and logged
\* and start() sleeps 5 seconds; otherwise the cycle ends in its sleep of
\* 1 second.
after_cycle(error) == IF error # "" THEN "sleep5" ELSE "sleep1"

\* while self.active: the next cycle is entered or start() returns.
loop_test(e) ==
    IF e.active
    THEN [e EXCEPT !.pc = "cycle"]
    ELSE [e EXCEPT !.pc = "returned"]

\* start() is called: active is set and the first cycle is entered.
EngineStart ==
    /\ engine.pc = "idle"
    /\ engine' = loop_test(Engine("idle", TRUE))
    /\ UNCHANGED <<state_vars, fn, cycle, calls, market_vars, service_vars, monitor,
                   reports, indicator_vars>>

\* stop() is called on an active engine.
EngineStop ==
    /\ engine.active
    /\ engine' = [engine EXCEPT !.active = FALSE]
    /\ UNCHANGED <<state_vars, fn, cycle, calls, market_vars, service_vars, monitor,
                   reports, indicator_vars>>

\* An error of the cycle: an exception that left _trading_loop, or a signal
\* that _execute_signal did not turn into an order (a rejected or failed
\* placement, caught and logged there).
cycle_failed(outcome) ==
    outcome.error # "" \/ (outcome.signal # None /\ outcome.placed = "")

\* _trading_loop runs to its end or raises.
LoopCycle ==
    /\ engine.pc = "cycle"
    /\ \E failure \in CycleFailures, state_manager \in StateManagers,
          min_confidence \in LoopMinConfidences, balance \in EngineBalances,
          condition \in LoopConditions, accept \in BOOLEAN :
          LET r == IF failure # ""
                   THEN [sm |-> SM, exchange |-> exchange,
                         outcome |-> Outcome(current_state, None, "", failure)]
                   ELSE trading_loop(SM, exchange, state_manager,
                                     config(min_confidence), balance,
                                     condition, accept)
          IN  /\ Set(r.sm)
              /\ exchange' = r.exchange
              /\ cycle' = r.outcome
              /\ engine' = [engine EXCEPT !.pc = after_cycle(r.outcome.error)]
    /\ UNCHANGED <<last, fn, calls, market_vars, service_vars, monitor, reports,
                   indicator_vars>>

\* The sleep of start() or of _trading_loop ends and the loop condition is
\* tested.
LoopSleepEnds ==
    /\ engine.pc \in {"sleep1", "sleep5"}
    /\ engine' = loop_test(engine)
    /\ UNCHANGED <<state_vars, fn, cycle, calls, market_vars, service_vars, monitor,
                   reports, indicator_vars>>

\* transition(new_state) is called without an order, as
\* handle_order_update calls it.
TransitionWithoutOrder ==
    \E new_state \in TradingState :
        LET r == transition(SM, new_state, None)
        IN  /\ Set(r.sm)
            /\ UNCHANGED exchange
            /\ last' = Call("transition", IF r.ok THEN "True" ELSE "False",
                            0, new_state)
            /\ UNCHANGED <<fn, cycle, calls, market_vars, service_vars, monitor,
                           reports, indicator_vars, engine>>

NextLoop ==
    \/ EngineStart
    \/ EngineStop
    \/ LoopCycle
    \/ LoopSleepEnds
    \/ TransitionWithoutOrder

SpecLoop == Init /\ [][NextLoop]_vars

\* A cycle ends and a sleep ends.
SpecLoopFair == SpecLoop /\ WF_vars(LoopCycle) /\ WF_vars(LoopSleepEnds)

\* A cycle that failed leaves the TradingState as it was and leaves start()
\* in the loop.
FailedCycleSurvived ==
    (engine.pc = "cycle" /\ engine'.pc # "cycle" /\ cycle_failed(cycle'))
        => /\ current_state' = current_state
           /\ engine'.pc \in {"sleep1", "sleep5"}

\* After stop() no cycle is started.
NoCycleAfterStop ==
    (engine.pc # "idle" /\ ~engine.active) => ~(engine.pc # "cycle" /\ engine'.pc = "cycle")

\* C32: an error raised inside a decision cycle never changes the
\* TradingState and never terminates the loop, which runs the next cycle as
\* long as the engine is active; after stop() no further cycle is started
\* and start() returns.
C32_LoopSurvivesFailedCycle ==
    /\ [][FailedCycleSurvived]_vars
    /\ [][NoCycleAfterStop]_vars
    /\ (engine.pc = "sleep5") ~> (engine.pc \in {"cycle", "returned"})
    /\ (engine.pc # "idle" /\ ~engine.active) ~> (engine.pc = "returned")

\* The last cycle raised, in a state other than the initial one, and the
\* loop has started the next cycle.
C32_Witness ==
    /\ engine.pc = "cycle"
    /\ engine.active
    /\ cycle.error # ""
    /\ cycle.state = READY_TO_SELL

====
